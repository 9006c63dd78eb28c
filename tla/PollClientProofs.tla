-------------------------- MODULE PollClientProofs --------------------------
(***************************************************************************)
(* Theorems about the client without WebSockets, for any destinations,     *)
(* browser, and number of calls and faults: once quiet the server's page   *)
(* has what the client listens to, but for what the known gaps of the      *)
(* protocol explain; the client knows that page; and a closed client asks  *)
(* for nothing.                                                            *)
(***************************************************************************)
EXTENDS PollClientProperties, TLAPS

-----------------------------------------------------------------------------
(* The inductive invariant.                                                *)

Command_ ==
    [n : Nat, type : {"publish", "subscibe", "unSubscibe", "close"},
     dests : SUBSET Dest, id : PageId]
Poll_ ==
    [at : {"none", "sent", "held", "answered", "cut", "torn", "over"},
     id : PageId, dests : SUBSET Dest, after : {"first", "loaded", "failed"},
     page : PageId, login : PageId, asked : SUBSET Dest]

\* The types, of whole records, and what a client has that is not connected
Types ==
    /\ ServerTypeOK /\ ClientTypeOK
    /\ poll \in Poll_ /\ adrift \subseteq Dest /\ connected \in BOOLEAN
    /\ called \in 0..MaxCalls /\ mishaps \in 0..MaxFaults
    /\ \A c \in cmds \cup delayed : c \in Command_ /\ c.n \in 1..called
    /\ \A w \in delayed : w.type = "subscibe"
    /\ ~connected =>
          listeners = {} /\ delayed = {} /\ poll.at = "none" /\ pageId = NoId
    /\ connected => poll.at # "none"

\* The server has given this id away, or a session's bare id.
Issued(i) == i[1] \in 0..created /\ (i[1] # 0 => i[2] \in 0..nextPage[i[1]])

(***************************************************************************)
(* The ids: a command that names a page the server has names the client's  *)
(* page; a login that has not run is of the request's page, and the page   *)
(* the client knew before is gone; a request is made for the page the      *)
(* client knows, and held for it.                                          *)
(***************************************************************************)
Ids ==
    /\ Issued(pageId) /\ Issued(cached)
    /\ \A c \in cmds : Issued(c.id) /\ (c.id \in DOMAIN subs => c.id = GetPageId)
    /\ poll.login # NoId =>
          /\ poll.at \in {"held", "answered", "torn"} /\ poll.login = poll.page
          /\ GetPageId \notin DOMAIN subs
          /\ Issued(poll.login) /\ poll.login[2] # 0
    /\ poll.at = "sent" => poll.id = GetPageId
    /\ poll.at \in {"held", "answered"} /\ poll.login = NoId => poll.page = GetPageId

\* Only a closed client has sent "close", a message names no destination to
\* subscribe to, and the page of a request that the server holds is there.
Closing ==
    /\ \A c \in cmds : (c.type = "close" => closed) /\ (c.type = "publish" => c.dests = {})
    /\ poll.at = "held" /\ ~closed => HeldPage \in DOMAIN subs

\* A request names what the client listened to then, or nothing after a success.
Named ==
    poll.at = "sent" =>
        /\ poll.after # "loaded" => poll.asked = poll.dests
        /\ poll.after = "loaded" => poll.dests = {}

\* The page that the request under way, or the next one, is for
Current == IF poll.at \in {"held", "answered"} THEN HeldPage ELSE GetPageId

\* A command about d is on its way.
Pending(d) == \E c \in cmds \cup delayed : d \in c.dests

\* The request under way, or the next one, will subscribe to d.
Renewed(d) ==
    /\ d \in listeners
    /\ poll.at = "cut" \/ (poll.at = "sent" /\ d \in poll.dests)

\* While the server has the page, what is not adrift agrees, or will.
Kept ==
    ~closed /\ Current \in DOMAIN subs /\ poll.at \notin {"none", "over"} =>
        \A d \in Dest \ adrift :
            \/ d \in listeners <=> d \in subs[Current]
            \/ Pending(d) \/ Renewed(d)

IInv == Types /\ Ids /\ Closing /\ Named /\ Kept

LEMMA TypesSuffice == PollClientAssumption /\ Types => PollTypeOK
    BY DEF Types, PollTypeOK, Poll_, Command_

-----------------------------------------------------------------------------
(* The server: what Listen, Command and the expiries do to its pages.      *)

\* Ids that were given away stay so.
Grown ==
    /\ created <= created'
    /\ \A t \in 1..created : nextPage[t] <= nextPage'[t]

StillIssued(i) ==
    i[1] \in 0..created' /\ (i[1] # 0 => i[2] \in 0..nextPage'[i[1]])

LEMMA IssuedGrows ==
    ASSUME ServerTypeOK, ServerTypeOK', Grown, NEW i, Issued(i)
    PROVE  StillIssued(i)
PROOF
<1>1. /\ created \in Nat /\ created' \in Nat /\ created <= created'
      /\ \A t \in 1..created : nextPage[t] \in Nat /\ nextPage[t] <= nextPage'[t]
      /\ \A t \in 1..created' : nextPage'[t] \in Nat
    BY DEF ServerTypeOK, Grown
<1>2. i[1] \in 0..created /\ (i[1] # 0 => i[2] \in 0..nextPage[i[1]])
    BY DEF Issued
<1>3. i[1] \in 0..created'
    BY ONLY <1>1, <1>2
<1>4. ASSUME i[1] # 0
      PROVE  i[2] \in 0..nextPage'[i[1]]
  <2>1. i[1] \in 1..created /\ i[1] \in 1..created'
      BY ONLY <1>1, <1>2, <1>3, <1>4
  <2>2. nextPage[i[1]] \in Nat /\ nextPage'[i[1]] \in Nat
        /\ nextPage[i[1]] <= nextPage'[i[1]]
      BY ONLY <1>1, <2>1
  <2> QED
      BY ONLY <1>2, <1>4, <2>2
<1> QED
    BY ONLY <1>3, <1>4 DEF StillIssued

\* A page the server has, has an id it gave away, and not a bare session id.
LEMMA PageIssued ==
    ASSUME ServerTypeOK, NEW p \in DOMAIN subs
    PROVE  Issued(p) /\ p \in PageId /\ p[2] # 0
PROOF
<1>1. /\ p[1] \in sessions /\ p[2] \in 1..nextPage[p[1]] /\ p \in PageId
      /\ sessions \subseteq 1..created /\ created \in Nat
      /\ nextPage \in [1..created -> Nat]
    BY DEF ServerTypeOK
<1>2. p[1] \in 1..created /\ nextPage[p[1]] \in Nat
    BY ONLY <1>1
<1> QED
    BY ONLY <1>1, <1>2 DEF Issued

LEMMA FoundPage ==
    ASSUME ServerTypeOK, NEW i \in PageId
    PROVE  /\ Lookup(i) \in PageId /\ Lookup(i) # NoId
           /\ ~IsNew(i) => Lookup(i) = i /\ Lookup(i) \in DOMAIN subs
                           /\ Lookup(i)[1] \in sessions
           /\ IsNew(i) => Lookup(i) \notin DOMAIN subs
           /\ Lookup(i)[1] \in sessions \/ Lookup(i)[1] = created + 1
           /\ IsNew(i) => Lookup(i)[2] =
                 IF i[1] \in sessions THEN nextPage[Lookup(i)[1]] + 1 ELSE 1
PROOF
<1> DEFINE p == Lookup(i)
<1>1. /\ created \in Nat /\ sessions \subseteq 1..created
      /\ \A t \in sessions : nextPage[t] \in Nat
    BY DEF ServerTypeOK
<1>2. \A q \in DOMAIN subs : q \in PageId /\ q[1] \in sessions /\ q[2] \in 1..nextPage[q[1]]
    BY DEF ServerTypeOK
<1>3. CASE ~IsNew(i)
  <2>1. p = i /\ i \in DOMAIN subs
      BY <1>3 DEF IsNew, Lookup
  <2>2. i[2] # 0 /\ i[1] \in sessions
      BY ONLY <1>1, <1>2, <2>1
  <2>3. i # NoId
      BY ONLY <2>2 DEF NoId
  <2> QED
      BY <1>3, <2>1, <2>2, <2>3
<1>4. CASE IsNew(i)
  <2> DEFINE n == IF i[1] \in sessions THEN nextPage[i[1]] + 1 ELSE 1
  <2>1. p = <<Session(i), n>>
      BY <1>4 DEF IsNew, Lookup
  <2>2. n \in Nat \ {0}
    <3>1. CASE i[1] \in sessions
      <4>1. nextPage[i[1]] \in Nat /\ n = nextPage[i[1]] + 1
          BY ONLY <1>1, <3>1
      <4> QED
          BY ONLY <4>1
    <3>2. CASE i[1] \notin sessions
      <4>1. n = 1
          BY ONLY <3>2
      <4> QED
          BY ONLY <4>1
    <3> QED
        BY ONLY <3>1, <3>2
  <2>3. Session(i) \in Nat /\ (Session(i) \in sessions \/ Session(i) = created + 1)
    <3>1. Session(i) \in sessions \/ Session(i) = created + 1
        BY ONLY TRUE DEF Session
    <3>2. \A t \in sessions : t \in Nat
        BY ONLY <1>1
    <3>3. created + 1 \in Nat
        BY ONLY <1>1
    <3> QED
        BY ONLY <3>1, <3>2, <3>3
  <2>4. p[1] = Session(i) /\ p[2] = n
      BY ONLY <2>1
  <2>5. i[1] \in sessions => Session(i) = i[1]
      BY ONLY TRUE DEF Session
  <2>6. p \notin DOMAIN subs
    <3>1. CASE i[1] \in sessions
      <4>1. nextPage[i[1]] \in Nat /\ p[1] = i[1] /\ p[2] = nextPage[i[1]] + 1
          BY ONLY <1>1, <2>4, <2>5, <3>1
      <4>2. p[2] \notin 1..nextPage[p[1]]
          BY ONLY <4>1
      <4> QED
          BY ONLY <1>2, <4>2
    <3>2. CASE i[1] \notin sessions
      <4>1. p[1] = created + 1
          BY ONLY <2>4, <3>2 DEF Session
      <4>2. p[1] \notin sessions
          BY ONLY <1>1, <4>1
      <4> QED
          BY ONLY <1>2, <4>2
    <3> QED
        BY ONLY <3>1, <3>2
  <2>7. p \in PageId /\ p # NoId
    <3>1. p \in PageId
        BY ONLY <2>1, <2>2, <2>3 DEF PageId
    <3>2. p # NoId
        BY ONLY <2>2, <2>4 DEF NoId
    <3> QED
        BY <3>1, <3>2
  <2> QED
      BY ONLY <1>4, <2>2, <2>3, <2>4, <2>5, <2>6, <2>7
<1> QED
    BY <1>3, <1>4

LEMMA ListenPages ==
    ASSUME ServerTypeOK, NEW i \in PageId, NEW D \in SUBSET Dest, Listen(i, D)
    PROVE  /\ DOMAIN subs' = DOMAIN subs \cup {Lookup(i)}
           /\ subs'[Lookup(i)] = D \cup (IF IsNew(i) THEN {} ELSE subs[Lookup(i)])
           /\ \A q \in DOMAIN subs : q # Lookup(i) => subs'[q] = subs[q]
           /\ \A q \in DOMAIN subs' : subs'[q] \subseteq Dest
PROOF
<1> DEFINE p == Lookup(i)
<1>1. subs' = [q \in DOMAIN subs \cup {p} |->
                 IF q = p THEN D \cup (IF IsNew(i) THEN {} ELSE subs[p]) ELSE subs[q]]
    BY DEF Listen
<1>2. IsNew(i) => p \notin DOMAIN subs
    BY FoundPage
<1>3. \A q \in DOMAIN subs : subs[q] \subseteq Dest
    BY DEF ServerTypeOK
<1>4. ~IsNew(i) => p \in DOMAIN subs
    BY FoundPage
<1> HIDE DEF p
<1>5. DOMAIN subs' = DOMAIN subs \cup {p}
    BY ONLY <1>1
<1>6. subs'[p] = D \cup (IF IsNew(i) THEN {} ELSE subs[p])
    BY ONLY <1>1
<1>7. \A q \in DOMAIN subs : q # p => subs'[q] = subs[q]
    BY ONLY <1>1
<1> QED
    BY <1>2, <1>3, <1>4, <1>5, <1>6, <1>7 DEF p

LEMMA ListenType ==
    ASSUME ServerTypeOK, NEW i \in PageId, NEW D \in SUBSET Dest, Listen(i, D)
    PROVE  ServerTypeOK' /\ Grown
PROOF
<1> DEFINE p == Lookup(i)
<1>1. /\ created \in Nat /\ sessions \subseteq 1..created
      /\ nextPage \in [1..created -> Nat]
      /\ DOMAIN subs \subseteq PageId
      /\ \A q \in DOMAIN subs : q[1] \in sessions /\ q[2] \in 1..nextPage[q[1]]
    BY DEF ServerTypeOK
<1>2. /\ p \in PageId /\ (p[1] \in sessions \/ p[1] = created + 1)
      /\ ~IsNew(i) => p \in DOMAIN subs
      /\ IsNew(i) => p[2] = IF i[1] \in sessions THEN nextPage[p[1]] + 1 ELSE 1
    BY FoundPage
<1>3. IsNew(i) /\ i[1] \notin sessions => p[1] = created + 1
    BY DEF Lookup, Session, IsNew
<1>4. /\ sessions' = sessions \cup {p[1]}
      /\ created' = IF p[1] > created THEN p[1] ELSE created
      /\ nextPage' = [t \in 1..created' |-> IF t = p[1] /\ IsNew(i) THEN p[2] ELSE nextPage[t]]
    BY DEF Listen
<1>5. DOMAIN subs' = DOMAIN subs \cup {p} /\ \A q \in DOMAIN subs' : subs'[q] \subseteq Dest
    BY ListenPages
<1>12. IsNew(i) /\ i[1] \in sessions => p[1] = i[1]
    BY DEF Lookup, Session, IsNew
<1>11. p[1] \in Nat /\ p[2] \in Nat
    BY ONLY <1>2 DEF PageId
<1> HIDE DEF p
<1>6. created' \in Nat /\ sessions' \subseteq 1..created' /\ created <= created'
      /\ (p[1] = created + 1 => created' = created + 1)
      /\ (p[1] \in sessions => created' = created)
  <2>1. CASE p[1] \in sessions
    <3>1. p[1] \in 1..created
        BY ONLY <1>1, <2>1
    <3>2. created' = created /\ p[1] # created + 1
        BY ONLY <1>1, <1>4, <3>1
    <3> QED
      <4>1. sessions' = sessions
          BY ONLY <1>4, <2>1
      <4>2. created <= created'
          BY ONLY <1>1, <3>2
      <4> QED
          BY ONLY <1>1, <3>2, <4>1, <4>2
  <2>2. CASE p[1] = created + 1
    <3>1. created' = created + 1 /\ p[1] \notin sessions
        BY ONLY <1>1, <1>4, <2>2
    <3>2. \A t \in sessions : t \in 1..(created + 1)
        BY ONLY <1>1
    <3> QED
        BY ONLY <1>1, <1>4, <2>2, <3>1, <3>2
  <2> QED
      BY ONLY <1>2, <2>1, <2>2
<1>7. p[1] \in sessions \/ (p[1] = created + 1 /\ IsNew(i))
    BY ONLY <1>1, <1>2
<1>8. nextPage' \in [1..created' -> Nat]
  <2>1. \A t \in 1..created' : ~(t = p[1] /\ IsNew(i)) => nextPage[t] \in Nat
    <3>1. \A t \in 1..created' : t = created + 1 \/ t \in 1..created
        BY ONLY <1>1, <1>6, <1>7
    <3>2. p[1] \in sessions => created' = created
        BY ONLY <1>6
    <3> QED
        BY ONLY <1>1, <1>7, <3>1, <3>2
  <2> QED
      BY ONLY <1>4, <1>11, <2>1
<1>10. \A t \in 1..created : nextPage'[t] \in Nat /\ nextPage[t] \in Nat
         /\ nextPage[t] <= nextPage'[t]
  <2>1. \A t \in 1..created : t \in 1..created'
      BY ONLY <1>1, <1>6
  <2>2. \A t \in 1..created : nextPage[t] \in Nat
      BY ONLY <1>1
  <2>3. \A t \in 1..created : t = p[1] /\ IsNew(i) => p[2] = nextPage[t] + 1
    <3>1. i[1] \notin sessions /\ IsNew(i) => p[1] \notin 1..created
        BY ONLY <1>1, <1>3
    <3> QED
        BY ONLY <1>2, <3>1
  <2> QED
      BY ONLY <1>4, <2>1, <2>2, <2>3
<1>9. \A q \in DOMAIN subs' : q[1] \in sessions' /\ q[2] \in 1..nextPage'[q[1]]
  <2>2. \A q \in DOMAIN subs : q[1] \in 1..created /\ q[2] \in 1..nextPage[q[1]]
      BY ONLY <1>1
  <2>3. \A q \in DOMAIN subs : q[2] \in 1..nextPage'[q[1]]
      BY ONLY <1>10, <2>2
  <2>4. IsNew(i) => p[2] \in 1..nextPage'[p[1]]
    <3>1. p[1] \in 1..created'
      <4>1. p[1] \in sessions'
          BY ONLY <1>4
      <4> QED
          BY ONLY <1>6, <4>1
    <3>2. IsNew(i) => nextPage'[p[1]] = p[2]
        BY ONLY <1>4, <3>1
    <3>3. IsNew(i) => p[2] \in Nat /\ p[2] >= 1
      <4>1. CASE IsNew(i) /\ i[1] \notin sessions
          BY ONLY <1>2, <4>1
      <4>2. CASE IsNew(i) /\ i[1] \in sessions
        <5>1. p[2] = nextPage[p[1]] + 1 /\ p[1] \in 1..created
            BY ONLY <1>1, <1>2, <1>12, <4>2
        <5> QED
            BY ONLY <1>1, <5>1
      <4> QED
          BY ONLY <4>1, <4>2
    <3> QED
        BY ONLY <3>2, <3>3
  <2>5. \A q \in DOMAIN subs : q[1] \in sessions
      BY ONLY <1>1
  <2> QED
      BY ONLY <1>2, <1>4, <1>5, <2>3, <2>4, <2>5
<1> QED
    BY ONLY <1>1, <1>2, <1>5, <1>6, <1>8, <1>9, <1>10 DEF ServerTypeOK, Grown

LEMMA CommandPages ==
    ASSUME ServerTypeOK, NEW p, NEW c \in Command_, Command(p, c.type, c.dests)
    PROVE  /\ ServerTypeOK' /\ DOMAIN subs' \subseteq DOMAIN subs
           /\ \A q \in DOMAIN subs : q # p => q \in DOMAIN subs' /\ subs'[q] = subs[q]
           /\ c.type # "close" /\ p \in DOMAIN subs =>
                 /\ p \in DOMAIN subs'
                 /\ c.type = "subscibe" => subs'[p] = subs[p] \cup c.dests
                 /\ c.type = "unSubscibe" => subs'[p] = subs[p] \ c.dests
                 /\ c.type = "publish" => subs'[p] = subs[p]
PROOF
<1>1. /\ c.type \in {"publish", "subscibe", "unSubscibe", "close"} /\ c.dests \subseteq Dest
      /\ UNCHANGED <<sessions, created, nextPage>>
    BY DEF Command_, Command
<1>2. /\ created \in Nat /\ sessions \subseteq 1..created
      /\ nextPage \in [1..created -> Nat] /\ DOMAIN subs \subseteq PageId
    BY DEF ServerTypeOK
<1>3. \A q \in DOMAIN subs :
         q[1] \in sessions /\ q[2] \in 1..nextPage[q[1]] /\ subs[q] \subseteq Dest
    BY DEF ServerTypeOK
<1>4. CASE p \notin DOMAIN subs
  <2>1. subs' = subs
      BY <1>4 DEF Command
  <2> QED
      BY ONLY <1>1, <1>2, <1>3, <1>4, <2>1 DEF ServerTypeOK
<1>5. CASE p \in DOMAIN subs /\ c.type = "subscibe"
  <2>1. subs' = [subs EXCEPT ![p] = @ \cup c.dests]
      BY <1>5 DEF Command
  <2>2. /\ DOMAIN subs' = DOMAIN subs /\ subs'[p] = subs[p] \cup c.dests
        /\ \A q \in DOMAIN subs : q # p => subs'[q] = subs[q]
      BY ONLY <1>5, <2>1
  <2>3. \A q \in DOMAIN subs' : subs'[q] \subseteq Dest
      BY ONLY <1>1, <1>3, <2>2
  <2>4. ServerTypeOK'
      BY ONLY <1>1, <1>2, <1>3, <2>2, <2>3 DEF ServerTypeOK
  <2> QED
      BY ONLY <1>5, <2>2, <2>4
<1>6. CASE p \in DOMAIN subs /\ c.type = "unSubscibe"
  <2>1. subs' = [subs EXCEPT ![p] = @ \ c.dests]
      BY <1>6 DEF Command
  <2>2. /\ DOMAIN subs' = DOMAIN subs /\ subs'[p] = subs[p] \ c.dests
        /\ \A q \in DOMAIN subs : q # p => subs'[q] = subs[q]
      BY ONLY <1>6, <2>1
  <2>3. \A q \in DOMAIN subs' : subs'[q] \subseteq Dest
      BY ONLY <1>1, <1>3, <2>2
  <2>4. ServerTypeOK'
      BY ONLY <1>1, <1>2, <1>3, <2>2, <2>3 DEF ServerTypeOK
  <2> QED
      BY ONLY <1>6, <2>2, <2>4
<1>7. CASE p \in DOMAIN subs /\ c.type = "close"
  <2>1. subs' = Restrict(subs, DOMAIN subs \ {p})
      BY <1>7 DEF Command
  <2>2. /\ DOMAIN subs' = DOMAIN subs \ {p}
        /\ \A q \in DOMAIN subs : q # p => subs'[q] = subs[q]
      BY ONLY <2>1 DEF Restrict
  <2>3. ServerTypeOK'
      BY ONLY <1>1, <1>2, <1>3, <2>2 DEF ServerTypeOK
  <2> QED
      BY ONLY <1>7, <2>2, <2>3
<1>8. CASE p \in DOMAIN subs /\ c.type = "publish"
  <2>1. subs' = subs
      BY <1>8 DEF Command
  <2> QED
      BY ONLY <1>1, <1>2, <1>3, <1>8, <2>1 DEF ServerTypeOK
<1> QED
    BY ONLY <1>1, <1>4, <1>5, <1>6, <1>7, <1>8

LEMMA ServerLoses ==
    ASSUME ServerTypeOK
    PROVE  /\ \A p \in DOMAIN subs : Expire(p) =>
                 /\ ServerTypeOK' /\ DOMAIN subs' = DOMAIN subs \ {p}
                 /\ \A q \in DOMAIN subs' : subs'[q] = subs[q]
           /\ \A t \in sessions : ForgetSession(t) => ServerTypeOK' /\ subs' = subs
           /\ Restart => ServerTypeOK' /\ subs' = << >>
PROOF
<1>1. /\ created \in Nat /\ sessions \subseteq 1..created
      /\ nextPage \in [1..created -> Nat] /\ DOMAIN subs \subseteq PageId
      /\ \A q \in DOMAIN subs :
            q[1] \in sessions /\ q[2] \in 1..nextPage[q[1]] /\ subs[q] \subseteq Dest
    BY DEF ServerTypeOK
<1>2. ASSUME NEW p \in DOMAIN subs, Expire(p)
      PROVE  /\ ServerTypeOK' /\ DOMAIN subs' = DOMAIN subs \ {p}
             /\ \A q \in DOMAIN subs' : subs'[q] = subs[q]
  <2>1. /\ subs' = Restrict(subs, DOMAIN subs \ {p})
        /\ UNCHANGED <<sessions, created, nextPage>>
      BY <1>2 DEF Expire
  <2>2. /\ DOMAIN subs' = DOMAIN subs \ {p}
        /\ \A q \in DOMAIN subs' : subs'[q] = subs[q]
      BY ONLY <2>1 DEF Restrict
  <2> QED
      BY ONLY <1>1, <2>1, <2>2 DEF ServerTypeOK
<1>3. ASSUME NEW t \in sessions, ForgetSession(t)
      PROVE  ServerTypeOK' /\ subs' = subs
    BY ONLY <1>1, <1>3 DEF ForgetSession, ServerTypeOK
<1>4. ASSUME Restart
      PROVE  ServerTypeOK' /\ subs' = << >>
  <2>1. sessions' = {} /\ subs' = << >> /\ UNCHANGED <<created, nextPage>>
      BY <1>4 DEF Restart
  <2>2. DOMAIN subs' = {}
      BY ONLY <2>1
  <2> QED
      BY ONLY <1>1, <2>1, <2>2 DEF ServerTypeOK
<1> QED
    BY <1>2, <1>3, <1>4

LEMMA SameGrown ==
    ASSUME ServerTypeOK, UNCHANGED <<created, nextPage>>
    PROVE  Grown
PROOF
<1>1. created \in Nat /\ \A t \in 1..created : nextPage[t] \in Nat
    BY DEF ServerTypeOK
<1> QED
    BY <1>1 DEF Grown

\* What a new page is called was not given away before.
LEMMA NewIsNotIssued ==
    ASSUME ServerTypeOK, NEW i \in PageId, IsNew(i)
    PROVE  ~Issued(Lookup(i))
PROOF
<1> DEFINE p == Lookup(i)
<1>1. /\ created \in Nat /\ sessions \subseteq 1..created
      /\ nextPage \in [1..created -> Nat]
    BY DEF ServerTypeOK
<1>2. CASE i[1] \in sessions
  <2>1. p[1] = i[1] /\ p[2] = nextPage[i[1]] + 1
      BY <1>2 DEF Lookup, Session, IsNew
  <2>2. i[1] \in 1..created /\ nextPage[i[1]] \in Nat
      BY ONLY <1>1, <1>2
  <2> HIDE DEF p
  <2>3. ~Issued(p)
      BY ONLY <2>1, <2>2 DEF Issued
  <2> QED
      BY <2>3 DEF p
<1>3. CASE i[1] \notin sessions
  <2>1. p[1] = created + 1
      BY <1>3 DEF Lookup, Session, IsNew
  <2> HIDE DEF p
  <2>2. ~Issued(p)
      BY ONLY <1>1, <2>1 DEF Issued
  <2> QED
      BY <2>2 DEF p
<1> QED
    BY <1>2, <1>3

-----------------------------------------------------------------------------
(* The request: how a step leaves it.                                      *)

\* Only its state is another.
Turned(x) ==
    /\ poll' \in Poll_ /\ poll'.at = x
    /\ poll'.id = poll.id /\ poll'.dests = poll.dests /\ poll'.after = poll.after
    /\ poll'.page = poll.page /\ poll'.login = poll.login /\ poll'.asked = poll.asked

\* It is another one, for destinations D.
Begun(D, a) ==
    /\ poll' \in Poll_ /\ poll'.at = "sent" /\ poll'.id = GetPageId'
    /\ poll'.dests = D /\ poll'.after = a /\ poll'.login = NoId
    /\ poll'.asked = listeners'

\* There is none, x being the reason.
Without(x) ==
    /\ poll' \in Poll_ /\ poll'.at = x /\ x \in {"none", "over"} /\ poll'.login = NoId

States == {"none", "sent", "held", "answered", "cut", "torn", "over"}

LEMMA IsTurned ==
    ASSUME poll \in Poll_, NEW x \in States, poll' = [poll EXCEPT !.at = x]
    PROVE  Turned(x)
    BY DEF Turned, Poll_, States

LEMMA IdTypes ==
    ASSUME ClientTypeOK
    PROVE  NoId \in PageId /\ pageId \in PageId /\ cached \in PageId
           /\ GetPageId \in PageId
PROOF
<1>1. NoId \in PageId
    BY DEF NoId, PageId
<1>2. pageId \in PageId /\ cached \in PageId
    BY DEF ClientTypeOK, PageId
<1> QED
    BY <1>1, <1>2 DEF GetPageId

LEMMA IsBegun ==
    ASSUME ClientTypeOK', NEW D \in SUBSET Dest, NEW a \in {"first", "loaded", "failed"},
           poll' = Request(D, a)
    PROVE  Begun(D, a)
PROOF
<1>1. listeners' \subseteq Dest /\ NoId \in PageId /\ GetPageId' \in PageId
  <2>1. (ClientTypeOK => GetPageId \in PageId)'
      BY IdTypes, PTL
  <2>2. NoId \in PageId
      BY DEF NoId, PageId
  <2> QED
      BY <2>1, <2>2 DEF ClientTypeOK
<1>2. poll' = [at |-> "sent", id |-> GetPageId', dests |-> D, after |-> a,
               page |-> NoId, login |-> NoId, asked |-> listeners']
    BY DEF Request
<1>3. poll' \in Poll_
    BY ONLY <1>1, <1>2, D \in SUBSET Dest, a \in {"first", "loaded", "failed"} DEF Poll_
<1>4. /\ poll'.at = "sent" /\ poll'.id = GetPageId' /\ poll'.dests = D
      /\ poll'.after = a /\ poll'.login = NoId /\ poll'.asked = listeners'
    BY ONLY <1>2
<1> QED
    BY <1>3, <1>4 DEF Begun

LEMMA IsWithout ==
    /\ poll' = NoPoll => Without("none")
    /\ poll' = Over => Without("over")
PROOF
<1>1. NoId \in PageId
    BY DEF NoId, PageId
<1>2. NoPoll \in Poll_ /\ NoPoll.at = "none" /\ NoPoll.login = NoId
    BY <1>1 DEF NoPoll, Poll_
<1>3. Over \in Poll_ /\ Over.at = "over" /\ Over.login = NoId
    BY <1>2 DEF Over, Poll_
<1> QED
    BY <1>2, <1>3 DEF Without

\* The next request after one that succeeded, l, or failed
LEMMA NextPollEffect ==
    ASSUME ClientTypeOK', listeners' = listeners, NEW l \in BOOLEAN, NextPoll(l)
    PROVE  \/ Without("over")
           \/ ~closed /\ l /\ Begun({}, "loaded")
           \/ ~closed /\ ~l /\ Begun(listeners, "failed")
PROOF
<1>1. CASE poll' = Over
    BY <1>1, IsWithout
<1>2. CASE ~closed /\ l /\ poll' = Request({}, "loaded")
    BY <1>2, IsBegun
<1>3. CASE ~closed /\ ~l /\ poll' = Request(listeners, "failed")
  <2>1. listeners \in SUBSET Dest
      BY DEF ClientTypeOK
  <2> QED
      BY <1>3, <2>1, IsBegun
<1> QED
    BY <1>1, <1>2, <1>3 DEF NextPoll, CollectDestinations

LEMMA ReopenEffect ==
    ASSUME ClientTypeOK', listeners' = listeners, Reopen
    PROVE  Without("over") \/ (~closed /\ Begun(listeners, "failed"))
PROOF
<1>1. listeners \in SUBSET Dest
    BY DEF ClientTypeOK
<1> QED
    BY <1>1, IsWithout, IsBegun DEF Reopen, CollectDestinations

-----------------------------------------------------------------------------
(* The commands, and the types of a step.                                  *)

\* One more /s request, which names the page the client knows
Goes(n, t, D) ==
    \E r \in Command_ :
        /\ r.n = n /\ r.type = t /\ r.dests = D /\ r.id = GetPageId
        /\ cmds' = cmds \cup {r}

LEMMA SendGoes ==
    ASSUME ClientTypeOK, NEW c \in Command_, SendHttpRequest(c)
    PROVE  Goes(c.n, c.type, c.dests)
PROOF
<1> DEFINE r == [c EXCEPT !.id = GetPageId]
<1>1. GetPageId \in PageId
    BY IdTypes
<1>2. r \in Command_ /\ r.n = c.n /\ r.type = c.type /\ r.dests = c.dests /\ r.id = GetPageId
    BY <1>1 DEF Command_
<1>3. cmds' = cmds \cup {r}
    BY DEF SendHttpRequest
<1> HIDE DEF r
<1> QED
    BY <1>2, <1>3 DEF Goes

LEMMA CallType ==
    ASSUME PollClientAssumption, Types, NextPollCall, NEW D \in SUBSET Dest,
           NEW t \in {"publish", "subscibe", "unSubscibe", "close"}
    PROVE  LET c == PollCmd(called + 1, t, D) IN
           /\ c \in Command_ /\ c.n = called + 1 /\ c.type = t /\ c.dests = D
           /\ ~closed /\ called < MaxCalls /\ called' = called + 1
           /\ SendHttpRequest(c) => Goes(called + 1, t, D)
PROOF
<1> DEFINE c == PollCmd(called + 1, t, D)
<1>1. called \in Nat /\ NoId \in PageId
    BY DEF PollClientAssumption, Types, NoId, PageId
<1>2. c = [n |-> called + 1, type |-> t, dests |-> D, id |-> NoId]
    BY DEF PollCmd
<1>3. c \in Command_ /\ c.n = called + 1 /\ c.type = t /\ c.dests = D
    BY ONLY <1>1, <1>2, D \in SUBSET Dest,
         t \in {"publish", "subscibe", "unSubscibe", "close"} DEF Command_
<1>4. ~closed /\ called < MaxCalls /\ called' = called + 1
    BY DEF NextPollCall, CheckConnection
<1> HIDE DEF c
<1>5. SendHttpRequest(c) => Goes(c.n, c.type, c.dests)
    BY <1>3, SendGoes DEF Types
<1>6. SendHttpRequest(c) => Goes(called + 1, t, D)
    BY <1>3, <1>5
<1> QED
    BY <1>3, <1>4, <1>6 DEF c

LEMMA TypesKept ==
    ASSUME PollClientAssumption, Types, ServerTypeOK', ClientTypeOK',
           poll' \in Poll_, adrift' \subseteq Dest,
           called' = called \/ (called < MaxCalls /\ called' = called + 1),
           mishaps' = mishaps \/ (mishaps < MaxFaults /\ mishaps' = mishaps + 1),
           \A c \in cmds' \cup delayed' :
              c \in cmds \cup delayed \/ (c \in Command_ /\ c.n \in 1..called'),
           \A w \in delayed' : w \in delayed \/ w.type = "subscibe",
           \/ /\ connected' = connected
              /\ poll.at = "none" <=> poll'.at = "none"
              /\ ~connected =>
                   listeners' \subseteq listeners /\ delayed' = delayed /\ pageId' = pageId
           \/ connected' = TRUE /\ poll'.at # "none"
           \/ /\ connected' = FALSE /\ listeners' = {} /\ delayed' = {}
              /\ poll'.at = "none" /\ pageId' = NoId
    PROVE  Types'
PROOF
<1>1. /\ called \in 0..MaxCalls /\ mishaps \in 0..MaxFaults
      /\ MaxCalls \in Nat /\ MaxFaults \in Nat
      /\ \A c \in cmds \cup delayed : c \in Command_ /\ c.n \in 1..called
      /\ \A w \in delayed : w.type = "subscibe"
      /\ connected \in BOOLEAN
      /\ ~connected =>
           listeners = {} /\ delayed = {} /\ poll.at = "none" /\ pageId = NoId
      /\ connected => poll.at # "none"
    BY DEF PollClientAssumption, Types
<1>2. called' \in 0..MaxCalls /\ mishaps' \in 0..MaxFaults
      /\ \A k \in 1..called : k \in 1..called'
    BY <1>1
<1>3. \A c \in cmds' \cup delayed' : c \in Command_ /\ c.n \in 1..called'
    BY <1>1, <1>2
<1>4. \A w \in delayed' : w.type = "subscibe"
    BY <1>1
<1>5. /\ connected' \in BOOLEAN
      /\ ~connected' =>
           listeners' = {} /\ delayed' = {} /\ poll'.at = "none" /\ pageId' = NoId
      /\ connected' => poll'.at # "none"
  <2>1. CASE /\ connected' = connected
             /\ poll.at = "none" <=> poll'.at = "none"
             /\ ~connected =>
                  listeners' \subseteq listeners /\ delayed' = delayed /\ pageId' = pageId
      BY ONLY <1>1, <2>1
  <2>2. CASE connected' = TRUE /\ poll'.at # "none"
      BY ONLY <2>2
  <2>3. CASE /\ connected' = FALSE /\ listeners' = {} /\ delayed' = {}
             /\ poll'.at = "none" /\ pageId' = NoId
      BY ONLY <2>3
  <2> QED
      BY <2>1, <2>2, <2>3
<1> QED
    BY <1>2, <1>3, <1>4, <1>5 DEF Types

\* What the server does with a request
LEMMA ServerPollEffect ==
    ASSUME Types, ServerPoll
    PROVE  LET p == Lookup(poll.id) IN
           /\ ServerTypeOK' /\ Grown
           /\ poll.at = "sent" /\ p \in DOMAIN subs' /\ DOMAIN subs' = DOMAIN subs \cup {p}
           /\ poll' \in Poll_ /\ poll'.page = p
           /\ poll'.at \in {"held", "answered"}
           /\ poll'.login = (IF IsNew(poll.id) THEN p ELSE NoId)
           /\ adrift' \subseteq Dest
           /\ UNCHANGED <<client, connected, cmds, delayed, called, mishaps>>
PROOF
<1> DEFINE p == Lookup(poll.id)
<1>1. ServerTypeOK /\ poll \in Poll_ /\ poll.id \in PageId /\ poll.dests \in SUBSET Dest
      /\ listeners \subseteq Dest /\ adrift \subseteq Dest
    BY DEF Types, Poll_, ClientTypeOK
<1>2. Listen(poll.id, poll.dests) /\ poll.at = "sent"
      /\ UNCHANGED <<client, connected, cmds, delayed, called, mishaps>>
    BY DEF ServerPoll
<1>3. ServerTypeOK' /\ Grown /\ DOMAIN subs' = DOMAIN subs \cup {p}
    BY <1>1, <1>2, ListenType, ListenPages
<1>4. p \in PageId /\ NoId \in PageId
    BY <1>1, FoundPage DEF NoId, PageId
<1>5. adrift' \subseteq Dest
    BY <1>1 DEF ServerPoll
<1>6. poll' = [poll EXCEPT !.at = IF IsNew(poll.id) /\ ~Streaming THEN "answered" ELSE "held",
                           !.page = p, !.login = IF IsNew(poll.id) THEN p ELSE NoId]
    BY DEF ServerPoll
<1> HIDE DEF p
<1>7. /\ poll' \in Poll_ /\ poll'.page = p /\ poll'.at \in {"held", "answered"}
      /\ poll'.login = IF IsNew(poll.id) THEN p ELSE NoId
    BY ONLY <1>1, <1>4, <1>6 DEF Poll_
<1> QED
    BY <1>2, <1>3, <1>5, <1>7 DEF p

\* What becomes of the ids when the login script runs
LEMMA LoginEffect ==
    ASSUME Types, Login
    PROVE  /\ poll.login = NoId => pageId' = pageId /\ cached' = cached
           /\ poll.login # NoId => pageId' = poll.login /\ cached' = <<poll.login[1], 0>>
           /\ pageId' \in PageId /\ cached' \in Nat \X {0}
PROOF
<1>1. poll.login \in PageId /\ pageId \in PageId /\ cached \in Nat \X {0}
    BY DEF Types, Poll_, ClientTypeOK
<1>2. /\ poll.login = NoId => pageId' = pageId /\ cached' = cached
      /\ poll.login # NoId => pageId' = poll.login /\ cached' = <<poll.login[1], 0>>
    BY DEF Login, LoggedIn, Remember
<1>3. <<poll.login[1], 0>> \in Nat \X {0}
    BY <1>1 DEF PageId
<1> QED
    BY ONLY <1>1, <1>2, <1>3

LEMMA StreamLoginEffect ==
    ASSUME Types, StreamLogin
    PROVE  /\ poll' \in Poll_ /\ poll'.at = "held" /\ poll'.login = NoId
           /\ poll'.page = poll.page
PROOF
<1>1. poll \in Poll_ /\ NoId \in PageId
    BY DEF Types, NoId, PageId
<1>2. poll' = [poll EXCEPT !.login = NoId] /\ poll.at = "held"
    BY DEF StreamLogin
<1> QED
    BY ONLY <1>1, <1>2 DEF Poll_

\* What subscribing does: the first request, or a command, at once or later.
LEMMA SubscribeEffect ==
    ASSUME PollClientAssumption, Types, NEW D \in SUBSET Dest, PollSubscribe(D)
    PROVE  /\ ~closed /\ called < MaxCalls /\ called' = called + 1 /\ connected' = TRUE
           /\ listeners' = listeners \cup D /\ ClientTypeOK'
           /\ UNCHANGED <<server, closed, pageId, cached, mishaps>>
           /\ \/ /\ ~connected /\ UNCHANGED <<cmds, delayed>>
                 /\ \/ Without("over") /\ adrift' = adrift \cup D
                    \/ Begun(D, "first") /\ adrift' = adrift
              \/ /\ connected /\ UNCHANGED <<poll, delayed>>
                 /\ \/ Goes(called + 1, "subscibe", D) /\ adrift' = adrift
                    \/ cmds' = cmds /\ adrift' = adrift \cup D
              \/ /\ connected /\ UNCHANGED <<poll, cmds, adrift>>
                 /\ \E c \in Command_ :
                       /\ c.n = called + 1 /\ c.type = "subscibe" /\ c.dests = D
                       /\ delayed' = delayed \cup {c}
PROOF
<1>1. NextPollCall /\ connected' = TRUE /\ listeners' = listeners \cup D
      /\ UNCHANGED <<server, closed, pageId, cached, mishaps>>
    BY DEF PollSubscribe
<1>2. ClientTypeOK'
    BY <1>1 DEF Types, ClientTypeOK
<1>3. LET c == PollCmd(called + 1, "subscibe", D) IN
      /\ c \in Command_ /\ c.n = called + 1 /\ c.type = "subscibe" /\ c.dests = D
      /\ ~closed /\ called < MaxCalls /\ called' = called + 1
      /\ SendHttpRequest(c) => Goes(called + 1, "subscibe", D)
    BY <1>1, CallType
<1>4. ASSUME ~connected, Connect(D), UNCHANGED <<cmds, delayed>>
      PROVE  \/ Without("over") /\ adrift' = adrift \cup D
             \/ Begun(D, "first") /\ adrift' = adrift
    BY <1>2, <1>4, IsWithout, IsBegun DEF Connect
<1>5. LET c == PollCmd(called + 1, "subscibe", D) IN
      \/ ~connected /\ Connect(D) /\ UNCHANGED <<cmds, delayed>>
      \/ /\ connected /\ UNCHANGED <<poll, delayed>>
         /\ SendHttpRequest(c) /\ UNCHANGED adrift
      \/ /\ connected /\ UNCHANGED <<poll, delayed>>
         /\ Throws(c) /\ adrift' = adrift \cup D
      \/ connected /\ delayed' = delayed \cup {c} /\ UNCHANGED <<poll, cmds, adrift>>
    BY DEF PollSubscribe
<1>6. \A c : Throws(c) => cmds' = cmds
    BY DEF Throws
<1> QED
    BY <1>1, <1>2, <1>3, <1>4, <1>5, <1>6

LEMMA UnsubscribeEffect ==
    ASSUME PollClientAssumption, Types, NEW D \in SUBSET Dest, PollUnsubscribe(D)
    PROVE  /\ ~closed /\ called < MaxCalls /\ called' = called + 1 /\ ClientTypeOK'
           /\ UNCHANGED <<server, closed, pageId, cached, connected, poll, delayed,
                          mishaps, adrift>>
           /\ \/ Goes(called + 1, "unSubscibe", D) /\ listeners' = listeners \ D
              \/ cmds' = cmds /\ listeners' = listeners
PROOF
<1>1. NextPollCall /\ UNCHANGED <<server, closed, pageId, cached, connected, poll, delayed,
                              mishaps, adrift>>
    BY DEF PollUnsubscribe
<1>2. LET c == PollCmd(called + 1, "unSubscibe", D) IN
      /\ ~closed /\ called < MaxCalls /\ called' = called + 1
      /\ SendHttpRequest(c) => Goes(called + 1, "unSubscibe", D)
    BY <1>1, CallType
<1>3. \/ Goes(called + 1, "unSubscibe", D) /\ listeners' = listeners \ D
      \/ cmds' = cmds /\ listeners' = listeners
    BY <1>2 DEF PollUnsubscribe, Throws
<1>4. ClientTypeOK'
    BY <1>1, <1>3 DEF Types, ClientTypeOK
<1> QED
    BY <1>1, <1>2, <1>3, <1>4

LEMMA PublishEffect ==
    ASSUME PollClientAssumption, Types, PollPublish
    PROVE  /\ ~closed /\ called < MaxCalls /\ called' = called + 1
           /\ Goes(called + 1, "publish", {}) \/ cmds' = cmds
           /\ UNCHANGED <<server, client, connected, poll, delayed, mishaps, adrift>>
    BY CallType DEF PollPublish

LEMMA CloseEffect ==
    ASSUME PollClientAssumption, Types, PollClose
    PROVE  /\ ~closed /\ called < MaxCalls /\ called' = called + 1 /\ closed' = TRUE
           /\ Goes(called + 1, "close", {})
           /\ UNCHANGED <<server, listeners, pageId, cached, connected, poll, delayed,
                          mishaps, adrift>>
    BY CallType DEF PollClose

LEMMA TickEffect ==
    ASSUME Types, NEW w \in delayed, PollTick(w)
    PROVE  /\ delayed' = delayed \ {w} /\ w \in Command_
           /\ \/ closed /\ cmds' = cmds /\ adrift' = adrift
              \/ ~closed /\ Goes(w.n, "subscibe", w.dests) /\ adrift' = adrift
              \/ ~closed /\ cmds' = cmds /\ adrift' = adrift \cup w.dests
           /\ UNCHANGED <<server, client, connected, poll, called, mishaps>>
PROOF
<1>1. w \in Command_ /\ w.type = "subscibe" /\ ClientTypeOK
    BY DEF Types
<1>2. SendHttpRequest(w) => Goes(w.n, "subscibe", w.dests)
    BY <1>1, SendGoes
<1> QED
    BY <1>1, <1>2 DEF PollTick, Throws

\* Without a request's record in hand: the steps of the browser
LEMMA HandlerEffect ==
    ASSUME Types, Loaded \/ Failed \/ StreamEnded \/ StreamMisjudged
    PROVE  /\ ClientTypeOK' /\ UNCHANGED <<server, closed, listeners, connected, cmds,
                                           delayed, called, adrift>>
           /\ Login \/ UNCHANGED <<pageId, cached>>
           /\ mishaps' = mishaps \/ (mishaps < MaxFaults /\ mishaps' = mishaps + 1)
           /\ poll.at \notin {"none", "over"}
           /\ \/ Without("over")
              \/ ~closed /\ Begun({}, "loaded") /\ poll.at \in {"answered", "torn"}
              \/ ~closed /\ Begun(listeners, "failed")
PROOF
<1>1. UNCHANGED <<server, closed, listeners, connected, cmds, delayed, called, adrift>>
    BY DEF Loaded, Failed, StreamEnded, StreamMisjudged, client
<1>2. Login \/ UNCHANGED <<pageId, cached>>
    BY DEF Loaded, Failed, StreamEnded, StreamMisjudged, client
<1>3. ClientTypeOK'
    BY <1>1, <1>2, LoginEffect DEF Types, ClientTypeOK
<1>4. CASE Loaded
    BY <1>1, <1>2, <1>3, <1>4, NextPollEffect DEF Loaded
<1>5. CASE Failed
  <2>1. poll.at \in {"cut", "torn"} /\ mishaps' = mishaps
      BY <1>5 DEF Failed
  <2>2. NextPoll(FALSE) \/ (poll.at = "torn" /\ NextPoll(TRUE))
      BY <1>5 DEF Failed
  <2> QED
      BY <1>1, <1>2, <1>3, <2>1, <2>2, NextPollEffect
<1>6. CASE StreamEnded
    BY <1>1, <1>2, <1>3, <1>6, ReopenEffect DEF StreamEnded
<1>7. CASE StreamMisjudged
    BY <1>1, <1>2, <1>3, <1>7, ReopenEffect DEF StreamMisjudged, Fault
<1> QED
    BY <1>4, <1>5, <1>6, <1>7

\* The request that loses its server, or its connection
LEMMA TurnEffect ==
    ASSUME Types
    PROVE  /\ Answer => Turned("answered") /\ poll.at = "held" /\ poll.page \in DOMAIN subs
           /\ Break => \/ Turned("cut") /\ poll.at = "sent"
                       \/ Turned("torn") /\ poll.at \in {"held", "answered"}
           /\ PollServerRestarts => \/ Turned("torn") /\ poll.at = "held"
                                    \/ poll' = poll /\ poll.at # "held"
PROOF
<1>1. poll \in Poll_ /\ {"answered", "cut", "torn"} \subseteq States
    BY DEF Types, States
<1>2. Answer => Turned("answered") /\ poll.at = "held" /\ poll.page \in DOMAIN subs
    BY <1>1, IsTurned DEF Answer
<1>3. ASSUME Break
      PROVE  \/ Turned("cut") /\ poll.at = "sent"
             \/ Turned("torn") /\ poll.at \in {"held", "answered"}
  <2>1. poll.at \in {"sent", "held", "answered"}
      BY <1>3 DEF Break
  <2>2. poll' = [poll EXCEPT !.at = IF poll.at = "sent" THEN "cut" ELSE "torn"]
      BY <1>3 DEF Break
  <2> QED
      BY <1>1, <2>1, <2>2, IsTurned
<1>4. PollServerRestarts => \/ Turned("torn") /\ poll.at = "held"
                            \/ poll' = poll /\ poll.at # "held"
    BY <1>1, IsTurned DEF PollServerRestarts
<1> QED
    BY <1>2, <1>3, <1>4

LEMMA TypesStep ==
    ASSUME PollClientAssumption, Types, [PollNext]_pollVars
    PROVE  Types'
PROOF
<1>1. /\ ServerTypeOK /\ ClientTypeOK /\ poll \in Poll_ /\ adrift \subseteq Dest
      /\ called \in Nat
      /\ \A c \in cmds \cup delayed : c \in Command_ /\ c.n \in 1..called
      /\ ~connected =>
            listeners = {} /\ delayed = {} /\ poll.at = "none" /\ pageId = NoId
      /\ connected \in BOOLEAN
    BY DEF Types, PollClientAssumption
<1>2. UNCHANGED server => ServerTypeOK'
    BY <1>1 DEF server, ServerTypeOK
<1>3. UNCHANGED client => ClientTypeOK'
    BY <1>1 DEF client, ClientTypeOK
<1>4. ASSUME NEW n, NEW t, NEW D, Goes(n, t, D), n \in 1..called', delayed' \subseteq delayed
      PROVE  \A c \in cmds' \cup delayed' :
                c \in cmds \cup delayed \/ (c \in Command_ /\ c.n \in 1..called')
    BY <1>4 DEF Goes
<1>5. called' = called + 1 => called + 1 \in 1..called'
    BY <1>1
<1>6. \A x : Turned(x) => poll' \in Poll_ /\ poll'.at = x
    BY DEF Turned
<1>a. CASE PollPublish
    BY <1>1, <1>2, <1>3, <1>4, <1>5, <1>a, PublishEffect, TypesKept DEF client
<1>b. CASE PollClose
  <2>1. ClientTypeOK'
      BY <1>1, <1>b, CloseEffect DEF ClientTypeOK
  <2>2. \A c \in cmds' \cup delayed' :
           c \in cmds \cup delayed \/ (c \in Command_ /\ c.n \in 1..called')
      BY <1>4, <1>5, <1>b, CloseEffect
  <2> QED
      BY <1>1, <1>2, <1>b, <2>1, <2>2, CloseEffect, TypesKept
<1>c. ASSUME NEW D \in SUBSET Dest, PollSubscribe(D)
      PROVE  Types'
  <2>1. /\ called < MaxCalls /\ called' = called + 1 /\ connected' = TRUE /\ ClientTypeOK'
        /\ UNCHANGED server /\ mishaps' = mishaps
      BY <1>c, SubscribeEffect
  <2>2. poll' \in Poll_ /\ poll'.at # "none" /\ adrift' \subseteq Dest
    <3>1. connected => poll.at # "none"
        BY DEF Types
    <3> QED
        BY <1>1, <1>c, <3>1, SubscribeEffect DEF Without, Begun
  <2>3. /\ \A c \in cmds' \cup delayed' :
              c \in cmds \cup delayed \/ (c \in Command_ /\ c.n \in 1..called')
        /\ \A w \in delayed' : w \in delayed \/ w.type = "subscibe"
    <3>1. CASE cmds' = cmds /\ delayed' = delayed
        BY <3>1
    <3>2. CASE Goes(called + 1, "subscibe", D) /\ delayed' = delayed
        BY <1>4, <1>5, <2>1, <3>2
    <3>3. CASE /\ cmds' = cmds
               /\ \E c \in Command_ :
                     /\ c.n = called + 1 /\ c.type = "subscibe" /\ c.dests = D
                     /\ delayed' = delayed \cup {c}
        BY <1>5, <2>1, <3>3
    <3> QED
        BY <1>c, <3>1, <3>2, <3>3, SubscribeEffect
  <2> QED
      BY <1>2, <2>1, <2>2, <2>3, TypesKept
<1>d. ASSUME NEW D \in SUBSET Dest, PollUnsubscribe(D)
      PROVE  Types'
  <2>1. \A c \in cmds' \cup delayed' :
           c \in cmds \cup delayed \/ (c \in Command_ /\ c.n \in 1..called')
      BY <1>4, <1>5, <1>d, UnsubscribeEffect
  <2>2. listeners' \subseteq listeners
      BY <1>d, UnsubscribeEffect
  <2> QED
      BY <1>1, <1>2, <1>d, <2>1, <2>2, UnsubscribeEffect, TypesKept
<1>e. CASE Loaded \/ Failed \/ StreamEnded \/ StreamMisjudged
  <2>1. poll' \in Poll_ /\ poll'.at # "none" /\ poll.at # "none"
      BY <1>e, HandlerEffect DEF Without, Begun, Loaded, Failed, StreamEnded, StreamMisjudged
  <2>2. \/ Without("over") \/ poll'.at # "none"
      BY <2>1
  <2> QED
      BY <1>1, <1>2, <1>e, <2>1, HandlerEffect, TypesKept
<1>f. CASE StreamLogin
  <2>1. /\ UNCHANGED <<server, closed, listeners, connected, cmds, delayed, called,
                       mishaps, adrift>>
        /\ Login /\ poll.at = "held"
      BY <1>f DEF StreamLogin
  <2>2. ClientTypeOK'
      BY <1>1, <2>1, LoginEffect DEF ClientTypeOK
  <2>3. connected
      BY <1>1, <2>1
  <2> QED
      BY <1>1, <1>2, <1>f, <2>1, <2>2, <2>3, StreamLoginEffect, TypesKept
<1>g. CASE BeforeUnload
  <2>1. ClientTypeOK'
      BY <1>1, <1>g DEF BeforeUnload, ClientTypeOK
  <2> QED
      BY <1>1, <1>2, <1>g, <2>1, TypesKept DEF BeforeUnload, Fault
<1>h. CASE Reload
  <2>1. ClientTypeOK'
      BY <1>1, <1>h, IdTypes DEF Reload, ClientTypeOK
  <2>2. Without("none")
      BY <1>h, IsWithout DEF Reload
  <2> QED
      BY <1>1, <1>2, <1>h, <2>1, <2>2, TypesKept DEF Reload, Fault, Without
<1>i. CASE PollServerRestarts
  <2>1. ServerTypeOK'
      BY <1>1, <1>i, ServerLoses DEF PollServerRestarts
  <2>2. poll' \in Poll_ /\ (poll.at = "none" <=> poll'.at = "none")
      BY <1>1, <1>6, <1>i, TurnEffect
  <2> QED
      BY <1>1, <1>3, <1>i, <2>1, <2>2, TypesKept DEF PollServerRestarts, Fault, client
<1>j. CASE Break
  <2>1. poll' \in Poll_ /\ (poll.at = "none" <=> poll'.at = "none")
      BY <1>6, <1>j, TurnEffect
  <2> QED
      BY <1>1, <1>2, <1>3, <1>j, <2>1, TypesKept DEF Break, Fault, client
<1>k. CASE ServerPoll
  <2>1. poll.at # "none" /\ poll'.at # "none"
      BY <1>k, ServerPollEffect
  <2> QED
      BY <1>1, <1>3, <1>k, <2>1, ServerPollEffect, TypesKept DEF client
<1>l. CASE Answer
  <2>1. poll' \in Poll_ /\ (poll.at = "none" <=> poll'.at = "none")
      BY <1>6, <1>l, TurnEffect
  <2> QED
      BY <1>1, <1>2, <1>3, <1>l, <2>1, TypesKept DEF Answer, client
<1>m. ASSUME NEW w \in delayed, PollTick(w)
      PROVE  Types'
  <2>1. /\ UNCHANGED <<server, client, connected, poll, called, mishaps>>
        /\ delayed' \subseteq delayed /\ w.n \in 1..called
        /\ w.dests \subseteq Dest /\ connected
      BY <1>1, <1>m, TickEffect DEF Command_
  <2>2. \A c \in cmds' \cup delayed' :
           c \in cmds \cup delayed \/ (c \in Command_ /\ c.n \in 1..called')
      BY <1>4, <1>m, <2>1, TickEffect
  <2>3. adrift' \subseteq Dest
      BY <1>1, <1>m, <2>1, TickEffect
  <2> QED
      BY <1>1, <1>2, <1>3, <2>1, <2>2, <2>3, TypesKept DEF client
<1>n. ASSUME NEW c \in cmds, ServerCommand(c)
      PROVE  Types'
  <2>1. c \in Command_ /\ c.dests \subseteq Dest
      BY <1>1 DEF Command_
  <2>2. ServerTypeOK'
      BY <1>1, <1>n, <2>1, CommandPages DEF ServerCommand
  <2>3. adrift' \subseteq Dest /\ cmds' \subseteq cmds
      BY <1>1, <1>n, <2>1 DEF ServerCommand
  <2> QED
      BY <1>1, <1>3, <1>n, <2>2, <2>3, TypesKept DEF ServerCommand, client
<1>o. ASSUME NEW c \in cmds, LoseCommand(c)
      PROVE  Types'
  <2>1. c.dests \subseteq Dest
      BY <1>1 DEF Command_
  <2> QED
      BY <1>1, <1>2, <1>3, <1>o, <2>1, TypesKept DEF LoseCommand, Fault, client
<1>p. ASSUME NEW p \in DOMAIN subs, PollPageExpires(p)
      PROVE  Types'
  <2>1. ServerTypeOK'
      BY <1>1, <1>p, ServerLoses DEF PollPageExpires
  <2> QED
      BY <1>1, <1>3, <1>p, <2>1, TypesKept DEF PollPageExpires, Fault, client
<1>q. ASSUME NEW s \in sessions, PollSessionExpires(s)
      PROVE  Types'
  <2>1. ServerTypeOK'
      BY <1>1, <1>q, ServerLoses DEF PollSessionExpires
  <2> QED
      BY <1>1, <1>3, <1>q, <2>1, TypesKept DEF PollSessionExpires, client
<1>r. CASE UNCHANGED pollVars
    BY <1>1, <1>2, <1>3, <1>r, TypesKept DEF pollVars, client
<1> QED
    BY <1>a, <1>b, <1>c, <1>d, <1>e, <1>f, <1>g, <1>h, <1>i, <1>j, <1>k, <1>l,
       <1>m, <1>n, <1>o, <1>p, <1>q, <1>r DEF PollNext, PollCalls, Handlers, PollTroubles

-----------------------------------------------------------------------------
(* The ids                                                                 *)

\* The request is what it was but for its state, or one for the client's page,
\* or none.
GoesOn ==
    \/ poll' = poll
    \/ Turned("answered") /\ poll.at = "held"
    \/ Turned("torn") /\ poll.at \in {"held", "answered"}
    \/ Turned("cut") /\ poll.at = "sent"
    \/ poll'.at = "sent" /\ poll'.id = GetPageId' /\ poll'.login = NoId
    \/ poll'.at \in {"over", "none"} /\ poll'.login = NoId

LEMMA IdsAre ==
    ASSUME StillIssued(pageId'), StillIssued(cached'),
           \A c \in cmds' : StillIssued(c.id) /\ (c.id \in DOMAIN subs' => c.id = GetPageId'),
           poll'.login # NoId =>
              /\ poll'.at \in {"held", "answered", "torn"} /\ poll'.login = poll'.page
              /\ GetPageId' \notin DOMAIN subs'
              /\ StillIssued(poll'.login) /\ poll'.login[2] # 0,
           poll'.at = "sent" => poll'.id = GetPageId',
           poll'.at \in {"held", "answered"} /\ poll'.login = NoId =>
              poll'.page = GetPageId'
    PROVE  Ids'
    BY DEF Ids, Issued, StillIssued

LEMMA IdsKept ==
    ASSUME ServerTypeOK, ServerTypeOK', Ids, Grown, pageId' = pageId, cached' = cached,
           DOMAIN subs' \subseteq DOMAIN subs, GoesOn,
           \A c \in cmds' : c \in cmds \/ c.id = GetPageId
    PROVE  Ids'
PROOF
<1>1. GetPageId' = GetPageId
    BY DEF GetPageId
<1>2. Issued(pageId) /\ Issued(cached)
    BY DEF Ids
<1>3. Issued(GetPageId)
    BY <1>2 DEF GetPageId
<1>4. \A i : Issued(i) => StillIssued(i)
    BY IssuedGrows
<1>5. StillIssued(pageId') /\ StillIssued(cached')
    BY <1>2, <1>4
<1>6. \A c \in cmds' : StillIssued(c.id) /\ (c.id \in DOMAIN subs' => c.id = GetPageId')
  <2> TAKE c \in cmds'
  <2>1. Issued(c.id) /\ (c.id \in DOMAIN subs => c.id = GetPageId)
      BY <1>3 DEF Ids
  <2> QED
      BY <1>1, <1>4, <2>1
<1>7. poll'.login # NoId =>
          /\ poll'.at \in {"held", "answered", "torn"} /\ poll'.login = poll'.page
          /\ GetPageId' \notin DOMAIN subs'
          /\ Issued(poll'.login) /\ poll'.login[2] # 0
    BY <1>1 DEF Ids, GoesOn, Turned
<1>8. poll'.at = "sent" => poll'.id = GetPageId'
    BY <1>1 DEF Ids, GoesOn, Turned
<1>9. poll'.at \in {"held", "answered"} /\ poll'.login = NoId => poll'.page = GetPageId'
    BY <1>1 DEF Ids, GoesOn, Turned
<1> QED
    BY <1>4, <1>5, <1>6, <1>7, <1>8, <1>9, IdsAre

\* A login runs: the client's page is that of the request.
LEMMA IdsLogged ==
    ASSUME Types, Ids, poll.login # NoId, Login, UNCHANGED server, cmds' = cmds,
           \/ poll'.at = "sent" /\ poll'.id = GetPageId' /\ poll'.login = NoId
           \/ poll'.at = "over" /\ poll'.login = NoId
           \/ poll'.at = "held" /\ poll'.login = NoId /\ poll'.page = poll.page
    PROVE  Ids'
PROOF
<1>1. /\ pageId' = poll.login /\ cached' = <<poll.login[1], 0>>
      /\ poll.login = poll.page /\ GetPageId \notin DOMAIN subs
      /\ Issued(poll.login)
    BY LoginEffect DEF Ids
<1>2. GetPageId' = poll.login
    BY <1>1 DEF GetPageId
<1>3. UNCHANGED <<created, nextPage, subs>>
    BY DEF server
<1>4. StillIssued(pageId') /\ StillIssued(cached')
  <2>1. /\ poll.login[1] \in 0..created
        /\ poll.login[1] # 0 => poll.login[2] \in 0..nextPage[poll.login[1]]
      BY <1>1 DEF Issued
  <2>2. created \in Nat /\ \A t \in 1..created : nextPage[t] \in Nat
      BY DEF Types, ServerTypeOK
  <2>3. poll.login[1] # 0 => 0 \in 0..nextPage[poll.login[1]]
      BY ONLY <2>1, <2>2
  <2>4. cached'[1] = poll.login[1] /\ cached'[2] = 0
      BY <1>1
  <2>5. StillIssued(pageId')
      BY <1>1, <1>3, <2>1 DEF StillIssued
  <2>6. StillIssued(cached')
      BY <1>3, <2>1, <2>3, <2>4 DEF StillIssued
  <2> QED
      BY <2>5, <2>6
<1>5. \A c \in cmds : StillIssued(c.id) /\ c.id \notin DOMAIN subs
  <2>1. \A c \in cmds : Issued(c.id) /\ c.id \notin DOMAIN subs
      BY <1>1 DEF Ids
  <2> QED
      BY <1>3, <2>1 DEF Issued, StillIssued
<1>6. /\ poll'.login = NoId
      /\ poll'.at = "sent" => poll'.id = GetPageId'
      /\ poll'.at \in {"held", "answered"} => poll'.page = GetPageId'
    BY <1>1, <1>2
<1> QED
    BY <1>3, <1>4, <1>5, <1>6, IdsAre

\* A page is found, or made, for the request.
LEMMA IdsFound ==
    ASSUME Types, Ids, ServerPoll
    PROVE  Ids'
PROOF
<1> DEFINE p == Lookup(poll.id)
<1>0. ServerTypeOK /\ ServerTypeOK' /\ Grown /\ poll.id \in PageId
    BY ServerPollEffect DEF Types, Poll_
<1>1. /\ p \in DOMAIN subs' /\ DOMAIN subs' = DOMAIN subs \cup {p}
      /\ poll'.page = p /\ poll'.at \in {"held", "answered"}
      /\ poll'.login = (IF IsNew(poll.id) THEN p ELSE NoId)
      /\ pageId' = pageId /\ cached' = cached /\ cmds' = cmds /\ poll.at = "sent"
    BY ServerPollEffect DEF client
<1>2. poll.id = GetPageId /\ GetPageId' = GetPageId
    BY <1>1 DEF Ids, GetPageId
<1>3. /\ ~IsNew(poll.id) => p = poll.id
      /\ IsNew(poll.id) => ~Issued(p) /\ poll.id \notin DOMAIN subs /\ p # NoId
    BY <1>0, FoundPage, NewIsNotIssued DEF IsNew
<1>4. \A i : Issued(i) => StillIssued(i)
    BY <1>0, IssuedGrows
<1>5. Issued(pageId) /\ Issued(cached) /\ Issued(GetPageId)
    BY DEF Ids, GetPageId
<1>6. \A c \in cmds' : StillIssued(c.id) /\ (c.id \in DOMAIN subs' => c.id = GetPageId')
  <2> TAKE c \in cmds'
  <2>1. Issued(c.id) /\ (c.id \in DOMAIN subs => c.id = GetPageId)
      BY <1>1 DEF Ids
  <2>2. IsNew(poll.id) => c.id # p
      BY <1>3, <2>1
  <2>3. c.id \in DOMAIN subs' => c.id = GetPageId'
      BY <1>1, <1>2, <1>3, <2>1, <2>2
  <2> QED
      BY <1>4, <2>1, <2>3
<1>7. StillIssued(p) /\ p[2] # 0
  <2>1. p[1] \in sessions' /\ p[2] \in 1..nextPage'[p[1]]
      BY <1>0, <1>1 DEF ServerTypeOK
  <2>2. sessions' \subseteq 1..created' /\ created' \in Nat
        /\ nextPage' \in [1..created' -> Nat]
      BY <1>0 DEF ServerTypeOK
  <2> HIDE DEF p
  <2>3. p[1] \in 1..created' /\ nextPage'[p[1]] \in Nat
      BY ONLY <2>1, <2>2
  <2> QED
      BY ONLY <2>1, <2>2, <2>3 DEF StillIssued
<1>8. poll'.login # NoId =>
          poll'.login = p /\ GetPageId' \notin DOMAIN subs'
  <2> SUFFICES ASSUME poll'.login # NoId
               PROVE  poll'.login = p /\ GetPageId' \notin DOMAIN subs'
      OBVIOUS
  <2>1. IsNew(poll.id) /\ poll'.login = p
      BY <1>1
  <2>2. GetPageId # p
      BY <1>3, <1>5, <2>1
  <2> QED
      BY <1>1, <1>2, <1>3, <2>1, <2>2
<1>9. poll'.login = NoId => poll'.page = GetPageId'
    BY <1>1, <1>2, <1>3
<1> HIDE DEF p
<1>10. StillIssued(pageId') /\ StillIssued(cached')
    BY <1>1, <1>4, <1>5
<1> QED
    BY <1>1, <1>6, <1>7, <1>8, <1>9, <1>10, IdsAre

\* The steps that neither serve the request nor change what the client knows
LEMMA StepGoesOn ==
    ASSUME PollClientAssumption, Types, Ids, [PollNext]_pollVars, ~ServerPoll, ~StreamLogin, ~Reload
    PROVE  GoesOn
PROOF
<1>1. PollPublish \/ PollClose => poll' = poll
    BY PublishEffect, CloseEffect
<1>2. ASSUME NEW D \in SUBSET Dest, PollSubscribe(D)
      PROVE  GoesOn
    BY <1>2, SubscribeEffect DEF GoesOn, Without, Begun
<1>3. ASSUME NEW D \in SUBSET Dest, PollUnsubscribe(D)
      PROVE  poll' = poll
    BY <1>3, UnsubscribeEffect
<1>4. Loaded \/ Failed \/ StreamEnded \/ StreamMisjudged => GoesOn
    BY HandlerEffect DEF GoesOn, Without, Begun
<1>5. BeforeUnload => poll' = poll
    BY DEF BeforeUnload
<1>6. PollServerRestarts \/ Break \/ Answer => GoesOn
    BY TurnEffect DEF GoesOn
<1>7. \A w \in delayed : PollTick(w) => poll' = poll
    BY DEF PollTick
<1>8. \A c \in cmds : ServerCommand(c) \/ LoseCommand(c) => poll' = poll
    BY DEF ServerCommand, LoseCommand
<1>9. \A p \in DOMAIN subs : PollPageExpires(p) => poll' = poll
    BY DEF PollPageExpires
<1>10. \A t \in sessions : PollSessionExpires(t) => poll' = poll
    BY DEF PollSessionExpires
<1>11. UNCHANGED pollVars => poll' = poll
    BY DEF pollVars
<1>12. poll' = poll => GoesOn
    BY DEF GoesOn
<1> QED
    BY <1>1, <1>2, <1>3, <1>4, <1>5, <1>6, <1>7, <1>8, <1>9, <1>10, <1>11, <1>12
       DEF PollNext, PollCalls, Handlers, PollTroubles

LEMMA IdsStep ==
    ASSUME PollClientAssumption, Types, Ids, [PollNext]_pollVars
    PROVE  Ids'
PROOF
<1>1. ServerTypeOK /\ ServerTypeOK'
    BY TypesStep DEF Types
<1>2. UNCHANGED server => Grown /\ DOMAIN subs' \subseteq DOMAIN subs
    BY <1>1, SameGrown DEF server
<1>3. UNCHANGED client => pageId' = pageId /\ cached' = cached
    BY DEF client
<1>4. \A n, t, D : Goes(n, t, D) => \A c \in cmds' : c \in cmds \/ c.id = GetPageId
    BY DEF Goes
<1>5. CASE ServerPoll
    BY <1>5, IdsFound
<1>6. CASE StreamLogin
  <2>1. Login /\ poll.login # NoId /\ UNCHANGED server /\ cmds' = cmds
      BY <1>6 DEF StreamLogin
  <2> QED
      BY <1>6, <2>1, StreamLoginEffect, IdsLogged
<1>7. CASE Reload
  <2>1. /\ cmds' = {} /\ pageId' = NoId /\ cached' = cached /\ Without("none")
        /\ UNCHANGED <<created, nextPage>>
      BY <1>7, IsWithout DEF Reload, server
  <2>2. StillIssued(cached')
      BY <1>1, <2>1, SameGrown, IssuedGrows DEF Ids
  <2>3. StillIssued(pageId')
    <3>1. created' \in Nat
        BY <1>1 DEF ServerTypeOK
    <3>2. NoId[1] = 0
        BY DEF NoId
    <3> QED
        BY <2>1, <3>1, <3>2 DEF StillIssued
  <2>4. /\ poll'.login = NoId /\ poll'.at = "none"
        /\ \A c \in cmds' : StillIssued(c.id) /\ (c.id \in DOMAIN subs' => c.id = GetPageId')
      BY <2>1 DEF Without
  <2> QED
      BY <2>2, <2>3, <2>4, IdsAre
<1> SUFFICES ASSUME ~ServerPoll, ~StreamLogin, ~Reload
             PROVE  Ids'
    BY <1>5, <1>6, <1>7
<1>8. GoesOn
    BY StepGoesOn
<1> DEFINE Sent == \A c \in cmds' : c \in cmds \/ c.id = GetPageId
<1>9. ASSUME UNCHANGED server, UNCHANGED <<pageId, cached>>, Sent
      PROVE  Ids'
    BY <1>1, <1>2, <1>8, <1>9, IdsKept
<1>10. ASSUME UNCHANGED <<created, nextPage>>, DOMAIN subs' \subseteq DOMAIN subs,
              UNCHANGED client, Sent
       PROVE  Ids'
    BY <1>1, <1>3, <1>8, <1>10, SameGrown, IdsKept
<1>a. CASE PollPublish \/ PollClose
    BY <1>3, <1>4, <1>9, <1>a, PublishEffect, CloseEffect
<1>c. ASSUME NEW D \in SUBSET Dest, PollSubscribe(D)
      PROVE  Ids'
    BY <1>4, <1>9, <1>c, SubscribeEffect
<1>d. ASSUME NEW D \in SUBSET Dest, PollUnsubscribe(D)
      PROVE  Ids'
    BY <1>4, <1>9, <1>d, UnsubscribeEffect
<1>e. CASE Loaded \/ Failed \/ StreamEnded \/ StreamMisjudged
  <2>1. UNCHANGED server /\ cmds' = cmds
      BY <1>e, HandlerEffect
  <2>2. CASE UNCHANGED <<pageId, cached>>
      BY <1>9, <2>1, <2>2
  <2>3. CASE Login
    <3>1. CASE poll.login = NoId
        BY <1>9, <2>1, <2>3, <3>1, LoginEffect
    <3>2. CASE poll.login # NoId
        BY <1>e, <2>1, <2>3, <3>2, HandlerEffect, IdsLogged DEF Without, Begun
    <3> QED
        BY <3>1, <3>2
  <2> QED
      BY <1>e, <2>2, <2>3, HandlerEffect
<1>g. CASE BeforeUnload
    BY <1>9, <1>g DEF BeforeUnload
<1>i. CASE PollServerRestarts
  <2>1. DOMAIN subs' \subseteq DOMAIN subs
      BY <1>1, <1>i, ServerLoses DEF PollServerRestarts
  <2> QED
      BY <1>10, <1>i, <2>1 DEF PollServerRestarts, Restart
<1>j. CASE Break \/ Answer
    BY <1>3, <1>9, <1>j DEF Break, Answer
<1>m. ASSUME NEW w \in delayed, PollTick(w)
      PROVE  Ids'
    BY <1>3, <1>4, <1>9, <1>m, TickEffect
<1>n. ASSUME NEW c \in cmds, ServerCommand(c)
      PROVE  Ids'
  <2>1. c \in Command_
      BY DEF Types
  <2>2. DOMAIN subs' \subseteq DOMAIN subs
      BY <1>1, <1>n, <2>1, CommandPages DEF ServerCommand
  <2> QED
      BY <1>10, <1>n, <2>2 DEF ServerCommand, Command
<1>o. ASSUME NEW c \in cmds, LoseCommand(c)
      PROVE  Ids'
    BY <1>3, <1>9, <1>o DEF LoseCommand
<1>p. ASSUME NEW p \in DOMAIN subs, PollPageExpires(p)
      PROVE  Ids'
  <2>1. DOMAIN subs' \subseteq DOMAIN subs
      BY <1>1, <1>p, ServerLoses DEF PollPageExpires
  <2> QED
      BY <1>10, <1>p, <2>1 DEF PollPageExpires, Expire
<1>q. ASSUME NEW t \in sessions, PollSessionExpires(t)
      PROVE  Ids'
    BY <1>10, <1>q DEF PollSessionExpires, ForgetSession
<1>r. CASE UNCHANGED pollVars
    BY <1>3, <1>9, <1>r DEF pollVars
<1> QED
    BY <1>a, <1>c, <1>d, <1>e, <1>g, <1>i, <1>j, <1>m, <1>n, <1>o, <1>p, <1>q, <1>r
       DEF PollNext, PollCalls, Handlers, PollTroubles

-----------------------------------------------------------------------------
(* The end of the client, and what its requests name.                      *)

LEMMA ClosingKept ==
    ASSUME Closing, GoesOn, closed => closed',
           \A c \in cmds' :
              \/ c \in cmds
              \/ (c.type = "close" => closed') /\ (c.type = "publish" => c.dests = {}),
           poll.at = "held" /\ ~closed' /\ poll' = poll /\ poll.page \in DOMAIN subs =>
              poll.page \in DOMAIN subs'
    PROVE  Closing'
PROOF
<1>1. \A c \in cmds' : (c.type = "close" => closed') /\ (c.type = "publish" => c.dests = {})
    BY DEF Closing
<1>2. poll'.at = "held" => poll' = poll
    BY DEF GoesOn, Turned
<1>3. poll'.at = "held" /\ ~closed' => poll'.page \in DOMAIN subs'
    BY <1>2 DEF Closing, HeldPage
<1> QED
    BY <1>1, <1>3 DEF Closing, HeldPage

LEMMA ClosingStep ==
    ASSUME PollClientAssumption, Types, Ids, Closing, [PollNext]_pollVars
    PROVE  Closing'
PROOF
<1>1. ServerTypeOK /\ \A c \in cmds \cup delayed : c \in Command_
    BY DEF Types
<1>2. UNCHANGED server => subs' = subs
    BY DEF server
<1>3. UNCHANGED client => closed' = closed
    BY DEF client
<1>4. \A n, D : \A t \in {"subscibe", "unSubscibe"} : Goes(n, t, D) =>
         \A c \in cmds' : c \in cmds \/ (c.type # "close" /\ c.type # "publish")
    BY DEF Goes
<1>5. CASE ServerPoll
  <2>1. closed' = closed /\ cmds' = cmds /\ poll'.page \in DOMAIN subs'
      BY <1>5, <1>3, ServerPollEffect
  <2> QED
      BY <2>1 DEF Closing, HeldPage
<1>6. CASE StreamLogin
  <2>1. /\ closed' = closed /\ cmds' = cmds /\ subs' = subs /\ poll.at = "held"
        /\ poll'.page = poll.page
      BY <1>6, StreamLoginEffect DEF StreamLogin, server
  <2> QED
      BY <2>1 DEF Closing, HeldPage
<1>7. CASE Reload
  <2>1. cmds' = {} /\ poll'.at = "none"
      BY <1>7, IsWithout DEF Reload, Without
  <2> QED
      BY <2>1 DEF Closing
<1> SUFFICES ASSUME ~ServerPoll, ~StreamLogin, ~Reload
             PROVE  Closing'
    BY <1>5, <1>6, <1>7
<1>8. GoesOn
    BY StepGoesOn
<1> DEFINE Sent == \A c \in cmds' : c \in cmds \/ (c.type # "close" /\ c.type # "publish")
<1>9. ASSUME subs' = subs, closed => closed', Sent
      PROVE  Closing'
    BY <1>8, <1>9, ClosingKept
<1>a. CASE PollPublish
  <2>1. /\ subs' = subs /\ closed' = closed
        /\ Goes(called + 1, "publish", {}) \/ cmds' = cmds
      BY <1>2, <1>3, <1>a, PublishEffect
  <2>2. \A c \in cmds' : c \in cmds \/ (c.type = "publish" /\ c.dests = {})
      BY <2>1 DEF Goes
  <2> QED
      BY <1>8, <2>1, <2>2, ClosingKept
<1>b. CASE PollClose
  <2>1. subs' = subs /\ closed' = TRUE /\ Goes(called + 1, "close", {})
      BY <1>2, <1>b, CloseEffect
  <2>2. \A c \in cmds' : c \in cmds \/ c.type = "close"
      BY <2>1 DEF Goes
  <2> QED
      BY <1>8, <2>1, <2>2, ClosingKept
<1>c. ASSUME NEW D \in SUBSET Dest, PollSubscribe(D)
      PROVE  Closing'
    BY <1>2, <1>4, <1>9, <1>c, SubscribeEffect
<1>d. ASSUME NEW D \in SUBSET Dest, PollUnsubscribe(D)
      PROVE  Closing'
    BY <1>2, <1>4, <1>9, <1>d, UnsubscribeEffect
<1>e. CASE Loaded \/ Failed \/ StreamEnded \/ StreamMisjudged
    BY <1>2, <1>9, <1>e, HandlerEffect
<1>g. CASE BeforeUnload
    BY <1>2, <1>9, <1>g DEF BeforeUnload
<1>i. CASE PollServerRestarts
  <2>1. poll.at = "held" => poll' # poll
      BY <1>i, TurnEffect DEF Turned
  <2> QED
      BY <1>3, <1>8, <1>i, <2>1, ClosingKept DEF PollServerRestarts
<1>j. CASE Break \/ Answer
    BY <1>2, <1>3, <1>9, <1>j DEF Break, Answer
<1>m. ASSUME NEW w \in delayed, PollTick(w)
      PROVE  Closing'
    BY <1>2, <1>3, <1>4, <1>9, <1>m, TickEffect
<1>n. ASSUME NEW c \in cmds, ServerCommand(c)
      PROVE  Closing'
  <2>1. closed' = closed /\ cmds' \subseteq cmds /\ Command(c.id, c.type, c.dests)
      BY <1>3, <1>n DEF ServerCommand
  <2>2. c.type = "close" => closed
      BY DEF Closing
  <2>3. ~closed' => \A q \in DOMAIN subs : q \in DOMAIN subs'
      BY <1>1, <2>1, <2>2, CommandPages
  <2> QED
      BY <1>8, <2>1, <2>3, ClosingKept
<1>o. ASSUME NEW c \in cmds, LoseCommand(c)
      PROVE  Closing'
    BY <1>2, <1>3, <1>9, <1>o DEF LoseCommand
<1>p. ASSUME NEW p \in DOMAIN subs, PollPageExpires(p)
      PROVE  Closing'
  <2>1. closed' = closed /\ cmds' = cmds /\ DOMAIN subs' = DOMAIN subs \ {p}
      BY <1>1, <1>3, <1>p, ServerLoses DEF PollPageExpires
  <2>2. poll.at = "held" => p # poll.page
      BY <1>p DEF PollPageExpires
  <2> QED
      BY <1>8, <2>1, <2>2, ClosingKept
<1>q. ASSUME NEW t \in sessions, PollSessionExpires(t)
      PROVE  Closing'
    BY <1>3, <1>9, <1>q DEF PollSessionExpires, ForgetSession
<1>r. CASE UNCHANGED pollVars
    BY <1>2, <1>3, <1>9, <1>r DEF pollVars
<1> QED
    BY <1>a, <1>b, <1>c, <1>d, <1>e, <1>g, <1>i, <1>j, <1>m, <1>n, <1>o, <1>p, <1>q, <1>r
       DEF PollNext, PollCalls, Handlers, PollTroubles

LEMMA NamedStep ==
    ASSUME PollClientAssumption, Types, Named, [PollNext]_pollVars
    PROVE  Named'
PROOF
<1>1. poll' = poll \/ poll'.at # "sent" => Named'
    BY DEF Named
<1>2. \A x : Turned(x) => poll'.at = x
    BY DEF Turned
<1>c. ASSUME NEW D \in SUBSET Dest, PollSubscribe(D)
      PROVE  Named'
  <2>1. CASE ~connected /\ Begun(D, "first")
    <3>1. listeners = {} /\ listeners' = listeners \cup D
        BY <1>c, <2>1, SubscribeEffect DEF Types
    <3> QED
        BY <2>1, <3>1 DEF Begun, Named
  <2>2. CASE poll' = poll \/ Without("over")
      BY <1>1, <2>2 DEF Without
  <2> QED
      BY <1>c, <2>1, <2>2, SubscribeEffect
<1>e. CASE Loaded \/ Failed \/ StreamEnded \/ StreamMisjudged
  <2>1. listeners' = listeners
      BY <1>e, HandlerEffect
  <2>2. CASE Begun({}, "loaded") \/ Begun(listeners, "failed")
      BY <2>1, <2>2 DEF Begun, Named
  <2>3. CASE Without("over")
      BY <1>1, <2>3 DEF Without
  <2> QED
      BY <1>e, <2>2, <2>3, HandlerEffect
<1>f. CASE StreamLogin
    BY <1>1, <1>f, StreamLoginEffect
<1>h. CASE Reload
    BY <1>1, <1>h, IsWithout DEF Reload, Without
<1>i. CASE PollServerRestarts \/ Break \/ Answer
    BY <1>1, <1>2, <1>i, TurnEffect
<1>k. CASE ServerPoll
    BY <1>1, <1>k, ServerPollEffect
<1>3. PollPublish \/ PollClose => poll' = poll
    BY PublishEffect, CloseEffect
<1>4. \A D \in SUBSET Dest : PollUnsubscribe(D) => poll' = poll
    BY UnsubscribeEffect
<1>5. /\ BeforeUnload => poll' = poll
      /\ \A w \in delayed : PollTick(w) => poll' = poll
      /\ \A c \in cmds : ServerCommand(c) \/ LoseCommand(c) => poll' = poll
      /\ \A p \in DOMAIN subs : PollPageExpires(p) => poll' = poll
      /\ \A t \in sessions : PollSessionExpires(t) => poll' = poll
      /\ UNCHANGED pollVars => poll' = poll
    BY DEF BeforeUnload, PollTick, ServerCommand, LoseCommand, PollPageExpires, PollSessionExpires, pollVars
<1> QED
    BY <1>1, <1>c, <1>e, <1>f, <1>h, <1>i, <1>k, <1>3, <1>4, <1>5
       DEF PollNext, PollCalls, Handlers, PollTroubles

-----------------------------------------------------------------------------
(* What the server's page has, and what the client listens to              *)

\* A step about other destinations, or that leaves a command about this one.
LEMMA KeptSame ==
    ASSUME Kept,
           ~closed' /\ Current' \in DOMAIN subs' /\ poll'.at \notin {"none", "over"} =>
              /\ ~closed /\ Current' = Current /\ Current \in DOMAIN subs
              /\ poll.at \notin {"none", "over"}
              /\ subs'[Current'] = subs[Current]
              /\ \A d \in Dest \ adrift' :
                    \/ Pending(d)'
                    \/ /\ d \notin adrift
                       /\ d \in listeners <=> d \in listeners'
                       /\ Pending(d) => Pending(d)'
                       /\ Renewed(d) => Renewed(d)'
    PROVE  Kept'
    BY DEF Kept

\* A page has no number that a session's bare id has.
LEMMA CachedIsNoPage == Types => cached \notin DOMAIN subs
PROOF
<1>1. Types => \A p \in DOMAIN subs : p[2] # 0
    BY PageIssued DEF Types
<1>2. Types => cached[2] = 0
    BY DEF Types, ClientTypeOK
<1> QED
    BY <1>1, <1>2

LEMMA Replaced ==
    ASSUME NEW w \in delayed, NEW n, NEW t, Goes(n, t, w.dests), delayed' = delayed \ {w},
           NEW d, Pending(d)
    PROVE  Pending(d)'
    BY DEF Goes, Pending

LEMMA KeptFound ==
    ASSUME Types, Ids, Named, Kept, ServerPoll
    PROVE  Kept'
PROOF
<1> DEFINE p == Lookup(poll.id)
           D == poll.dests
<1>1. /\ poll.at = "sent" /\ poll.id = GetPageId /\ poll.id \in PageId /\ D \in SUBSET Dest
      /\ ServerTypeOK
    BY DEF ServerPoll, Ids, Types, Poll_
<1>2. /\ closed' = closed /\ listeners' = listeners /\ cmds' = cmds /\ delayed' = delayed
      /\ poll'.at \in {"held", "answered"} /\ poll'.page = p
    BY ServerPollEffect DEF client
<1>3. Current = poll.id /\ Current' = p
    BY <1>1, <1>2 DEF Current, HeldPage
<1>4. Listen(poll.id, D)
    BY DEF ServerPoll
<1>5. subs'[p] = D \cup (IF IsNew(poll.id) THEN {} ELSE subs[p])
    BY <1>1, <1>4, ListenPages
<1>6. ~IsNew(poll.id) => p = poll.id /\ p \in DOMAIN subs
    BY <1>1, FoundPage
<1>7. \A d : Pending(d) => Pending(d)'
    BY <1>2 DEF Pending
<1>8. \A d \in Dest \ adrift' :
         /\ d \in D => d \in listeners
         /\ d \notin D =>
               /\ IsNew(poll.id) =>
                     /\ poll.after = "loaded" => d \notin listeners
                     /\ poll.after # "loaded" => d \notin listeners \/ d \in poll.asked
               /\ ~IsNew(poll.id) => d \notin adrift
    BY DEF ServerPoll
<1>9. poll.after # "loaded" => poll.asked = D
    BY <1>1 DEF Named
<1> HIDE DEF p, D
<1>10. ASSUME ~closed, NEW d \in Dest \ adrift'
       PROVE  \/ d \in listeners <=> d \in subs'[p]
              \/ Pending(d)
  <2>1. CASE d \in D
      BY <1>5, <1>8, <1>10, <2>1
  <2>2. CASE d \notin D /\ IsNew(poll.id)
      BY <1>5, <1>8, <1>9, <1>10, <2>2
  <2>3. CASE d \notin D /\ ~IsNew(poll.id)
    <3>1. d \notin adrift /\ Current \in DOMAIN subs /\ Current = p
        BY <1>3, <1>6, <1>8, <1>10, <2>3
    <3>2. \/ d \in listeners <=> d \in subs[p]
          \/ Pending(d) \/ Renewed(d)
        BY <1>1, <1>10, <3>1 DEF Kept
    <3>3. ~Renewed(d)
        BY <1>1, <2>3 DEF Renewed, D
    <3> QED
        BY <1>5, <2>3, <3>2, <3>3
  <2> QED
      BY <2>1, <2>2, <2>3
<1> QED
    BY <1>2, <1>3, <1>7, <1>10 DEF Kept

LEMMA KeptCommand ==
    ASSUME Types, Ids, Closing, Kept, NEW c \in cmds, ServerCommand(c)
    PROVE  Kept'
PROOF
<1> DEFINE same == IF c.type = "subscibe" THEN c.dests \cap listeners ELSE c.dests \ listeners
<1>1. /\ UNCHANGED <<client, poll, delayed>> /\ cmds' = cmds \ {c}
      /\ Command(c.id, c.type, c.dests)
      /\ adrift' = IF c.id \in DOMAIN subs THEN (adrift \ same) \cup (c.dests \ same)
                   ELSE adrift \cup c.dests
    BY DEF ServerCommand
<1>2. /\ closed' = closed /\ listeners' = listeners /\ poll' = poll
      /\ Current' = Current
    BY <1>1 DEF client, Current, HeldPage, GetPageId
<1>3. c \in Command_ /\ ServerTypeOK
    BY DEF Types
<1>4. /\ same \subseteq c.dests
      /\ c.type = "subscibe" => same \subseteq listeners
      /\ c.type # "subscibe" => same \cap listeners = {}
    OBVIOUS
<1>5. \A d : d \notin c.dests => (Pending(d) => Pending(d)') /\ (Renewed(d) => Renewed(d)')
    BY <1>1, <1>2 DEF Pending, Renewed
<1> HIDE DEF same
<1>6. CASE c.id \notin DOMAIN subs
  <2>1. subs' = subs
      BY <1>1, <1>6 DEF Command
  <2>2. \A d \in Dest \ adrift' : d \notin adrift /\ d \notin c.dests
      BY <1>1, <1>6
  <2> QED
      BY <1>2, <1>5, <2>1, <2>2, KeptSame DEF Kept
<1>7. CASE c.id \in DOMAIN subs /\ closed
    BY <1>2, <1>7 DEF Kept
<1>8. CASE c.id \in DOMAIN subs /\ ~closed
  <2>1. c.id = GetPageId /\ c.type # "close" /\ (c.type = "publish" => c.dests = {})
      BY <1>8 DEF Ids, Closing
  <2>2. Current = c.id
    <3>1. GetPageId \in DOMAIN subs
        BY <1>8, <2>1
    <3>2. poll.login = NoId
        BY <3>1 DEF Ids
    <3> QED
        BY <2>1, <3>2 DEF Current, HeldPage, Ids
  <2>3. /\ c.type = "subscibe" => subs'[c.id] = subs[c.id] \cup c.dests
        /\ c.type = "unSubscibe" => subs'[c.id] = subs[c.id] \ c.dests
        /\ c.type = "publish" => subs'[c.id] = subs[c.id]
        /\ c.type \in {"publish", "subscibe", "unSubscibe"}
      BY <1>1, <1>3, <1>8, <2>1, CommandPages DEF Command_
  <2>4. ASSUME NEW d \in Dest \ adrift', poll.at \notin {"none", "over"}
        PROVE  \/ d \in listeners <=> d \in subs'[c.id]
               \/ Pending(d)' \/ Renewed(d)'
    <3>1. d \in same \/ (d \notin c.dests /\ d \notin adrift)
        BY <1>1, <1>4, <1>8, <2>4
    <3>2. CASE d \in same
        BY <1>4, <2>1, <2>3, <3>2
    <3>3. CASE d \notin c.dests /\ d \notin adrift
      <4>1. \/ d \in listeners <=> d \in subs[c.id]
            \/ Pending(d) \/ Renewed(d)
          BY <1>8, <2>2, <2>4, <3>3 DEF Kept
      <4>2. d \in subs[c.id] <=> d \in subs'[c.id]
          BY <2>3, <3>3
      <4> QED
          BY <1>5, <3>3, <4>1, <4>2
    <3> QED
        BY <3>1, <3>2, <3>3
  <2> QED
      BY <1>2, <2>2, <2>4 DEF Kept
<1> QED
    BY <1>6, <1>7, <1>8

\* The browser goes on to the next request, or to none.
LEMMA KeptHandler ==
    ASSUME Types, Ids, Kept, Loaded \/ Failed \/ StreamEnded \/ StreamMisjudged
    PROVE  Kept'
PROOF
<1>1. /\ subs' = subs /\ closed' = closed /\ listeners' = listeners
      /\ cmds' = cmds /\ delayed' = delayed /\ adrift' = adrift
      /\ poll.at \notin {"none", "over"}
      /\ \/ Without("over")
         \/ ~closed /\ Begun({}, "loaded") /\ poll.at \in {"answered", "torn"}
         \/ ~closed /\ Begun(listeners, "failed")
    BY HandlerEffect DEF server
<1>2. ASSUME GetPageId' \in DOMAIN subs
      PROVE  Current = GetPageId'
  <2>1. CASE Loaded
    <3>1. poll.at = "answered" /\ Login
        BY <2>1 DEF Loaded
    <3>2. CASE poll.login = NoId
      <4>1. GetPageId' = GetPageId
          BY <3>1, <3>2, LoginEffect DEF GetPageId
      <4> QED
          BY <3>1, <3>2, <4>1 DEF Current, HeldPage, Ids
    <3>3. CASE poll.login # NoId
      <4>1. pageId' = poll.login /\ poll.login = poll.page
          BY <3>1, <3>3, LoginEffect DEF Ids
      <4>2. GetPageId' = poll.page
          BY <3>3, <4>1 DEF GetPageId
      <4> QED
          BY <3>1, <4>2 DEF Current, HeldPage
    <3> QED
        BY <3>2, <3>3
  <2>2. CASE Failed \/ StreamEnded \/ StreamMisjudged
    <3>1. GetPageId' = GetPageId
        BY <2>2 DEF Failed, StreamEnded, StreamMisjudged, client, GetPageId
    <3>2. poll.login = NoId
        BY <1>2, <3>1 DEF Ids
    <3> QED
        BY <3>1, <3>2 DEF Current, HeldPage, Ids
  <2> QED
      BY <2>1, <2>2
<1>3. \A d : Pending(d) => Pending(d)'
    BY <1>1 DEF Pending
<1>4. CASE Without("over")
    BY <1>4 DEF Kept, Without
<1>5. CASE Begun({}, "loaded") /\ poll.at \in {"answered", "torn"}
  <2>1. poll'.at = "sent" /\ Current' = GetPageId'
      BY <1>5 DEF Begun, Current
  <2>2. \A d : ~Renewed(d)
      BY <1>5 DEF Renewed
  <2> QED
      BY <1>1, <1>2, <1>3, <2>1, <2>2, KeptSame
<1>6. CASE Begun(listeners, "failed")
  <2>1. poll'.at = "sent" /\ Current' = GetPageId' /\ poll'.dests = listeners
      BY <1>6 DEF Begun, Current
  <2>2. \A d : Renewed(d) => Renewed(d)'
      BY <1>1, <2>1 DEF Renewed
  <2> QED
      BY <1>1, <1>2, <1>3, <2>1, <2>2, KeptSame
<1> QED
    BY <1>1, <1>4, <1>5, <1>6

LEMMA KeptSubscribe ==
    ASSUME PollClientAssumption, Types, Kept, NEW D \in SUBSET Dest, PollSubscribe(D)
    PROVE  Kept'
PROOF
<1>1. /\ closed' = closed /\ listeners' = listeners \cup D /\ subs' = subs
      /\ GetPageId' = GetPageId
    BY SubscribeEffect DEF server, GetPageId
<1>2. \A d \in D : d \in listeners'
    BY <1>1
<1>3. CASE ~connected /\ Without("over")
    BY <1>3 DEF Kept, Without
<1>4. CASE ~connected /\ Begun(D, "first")
  <2>1. GetPageId = cached
      BY <1>4 DEF Types, GetPageId
  <2>2. Current' \notin DOMAIN subs'
      BY <1>1, <1>4, <2>1, CachedIsNoPage DEF Begun, Current
  <2> QED
      BY <2>2 DEF Kept
<1>5. CASE /\ poll' = poll
           /\ \A d : Pending(d) => Pending(d)'
           /\ \A d \in Dest \ adrift' : Pending(d)' \/ (d \notin D /\ d \notin adrift)
  <2>1. Current' = Current
      BY <1>1, <1>5 DEF Current, HeldPage
  <2>2. \A d : Renewed(d) => Renewed(d)'
      BY <1>1, <1>5 DEF Renewed
  <2>3. \A d \in Dest \ adrift' :
           Pending(d)' \/ (d \notin adrift /\ (d \in listeners <=> d \in listeners'))
      BY <1>1, <1>5
  <2> QED
      BY <1>1, <1>5, <2>1, <2>2, <2>3, KeptSame
<1>6. CASE /\ UNCHANGED <<poll, delayed>>
           /\ \/ Goes(called + 1, "subscibe", D) /\ adrift' = adrift
              \/ cmds' = cmds /\ adrift' = adrift \cup D
    BY <1>5, <1>6 DEF Goes, Pending
<1>7. CASE /\ UNCHANGED <<poll, cmds, adrift>>
           /\ \E c \in Command_ :
                 /\ c.n = called + 1 /\ c.type = "subscibe" /\ c.dests = D
                 /\ delayed' = delayed \cup {c}
    BY <1>5, <1>7 DEF Pending
<1> QED
    BY <1>3, <1>4, <1>6, <1>7, SubscribeEffect

\* A request that breaks, or is answered
LEMMA KeptTurned ==
    ASSUME Types, Ids, Kept, Break \/ Answer
    PROVE  Kept'
PROOF
<1>1. /\ subs' = subs /\ closed' = closed /\ listeners' = listeners
      /\ cmds' = cmds /\ delayed' = delayed /\ adrift' = adrift /\ GetPageId' = GetPageId
    BY DEF Break, Answer, server, client, GetPageId
<1>2. \A d : Pending(d) => Pending(d)'
    BY <1>1 DEF Pending
<1>3. CASE Turned("answered") /\ poll.at = "held"
  <2>1. Current' = Current /\ poll.at \notin {"none", "over"} /\ \A d : ~Renewed(d)
      BY <1>3 DEF Turned, Current, HeldPage, Renewed
  <2> QED
      BY <1>1, <1>2, <2>1, KeptSame
<1>4. CASE Turned("cut") /\ poll.at = "sent"
  <2>1. Current' = Current /\ poll.at \notin {"none", "over"}
      BY <1>1, <1>4 DEF Turned, Current
  <2>2. \A d : Renewed(d) => Renewed(d)'
      BY <1>1, <1>4 DEF Turned, Renewed
  <2> QED
      BY <1>1, <1>2, <2>1, <2>2, KeptSame
<1>5. CASE Turned("torn") /\ poll.at \in {"held", "answered"}
  <2>1. Current' = GetPageId /\ poll.at \notin {"none", "over"} /\ \A d : ~Renewed(d)
      BY <1>1, <1>5 DEF Turned, Current, Renewed
  <2>2. GetPageId \in DOMAIN subs => Current = GetPageId
      BY <1>5 DEF Ids, Current, HeldPage
  <2> QED
      BY <1>1, <1>2, <2>1, <2>2, KeptSame
<1> QED
    BY <1>3, <1>4, <1>5, TurnEffect

LEMMA KeptStep ==
    ASSUME PollClientAssumption, Types, Ids, Closing, Named, Kept, [PollNext]_pollVars
    PROVE  Kept'
PROOF
<1>1. ServerTypeOK /\ \A c \in cmds \cup delayed : c \in Command_
    BY DEF Types
<1>2. UNCHANGED server => subs' = subs
    BY DEF server
<1>3. UNCHANGED client =>
         closed' = closed /\ listeners' = listeners /\ GetPageId' = GetPageId
    BY DEF client, GetPageId
<1>4. poll' = poll /\ GetPageId' = GetPageId => Current' = Current
    BY DEF Current, HeldPage
<1>5. \A n, t, D : Goes(n, t, D) /\ delayed' = delayed =>
         /\ \A d : Pending(d) => Pending(d)'
         /\ \A d \in D : Pending(d)'
    BY DEF Goes, Pending
<1>6. cmds' = cmds /\ delayed' = delayed => \A d : Pending(d) => Pending(d)'
    BY DEF Pending
<1>7. poll' = poll /\ listeners' = listeners => \A d : Renewed(d) => Renewed(d)'
    BY DEF Renewed
<1>8. closed' \/ poll'.at \in {"none", "over"} => Kept'
    BY DEF Kept
<1>9. ASSUME closed' = closed, poll' = poll, GetPageId' = GetPageId, subs' = subs,
             listeners' = listeners, adrift \subseteq adrift',
             \A d \in Dest \ adrift' : Pending(d) => Pending(d)'
      PROVE  Kept'
    BY <1>4, <1>7, <1>9, KeptSame
<1>a. CASE PollPublish
    BY <1>2, <1>3, <1>5, <1>6, <1>9, <1>a, PublishEffect
<1>b. CASE PollClose
    BY <1>8, <1>b, CloseEffect
<1>c. ASSUME NEW D \in SUBSET Dest, PollSubscribe(D)
      PROVE  Kept'
    BY <1>c, KeptSubscribe
<1>d. ASSUME NEW D \in SUBSET Dest, PollUnsubscribe(D)
      PROVE  Kept'
  <2>1. /\ closed' = closed /\ poll' = poll /\ GetPageId' = GetPageId /\ subs' = subs
        /\ adrift' = adrift /\ delayed' = delayed
      BY <1>2, <1>d, UnsubscribeEffect DEF GetPageId
  <2>2. CASE cmds' = cmds /\ listeners' = listeners
      BY <1>6, <1>9, <2>1, <2>2
  <2>3. CASE Goes(called + 1, "unSubscibe", D) /\ listeners' = listeners \ D
    <3>1. \A d : (Pending(d) => Pending(d)') /\ (d \in D => Pending(d)')
        BY <1>5, <2>1, <2>3
    <3>2. \A d : d \notin D =>
             (d \in listeners <=> d \in listeners') /\ (Renewed(d) => Renewed(d)')
        BY <2>1, <2>3 DEF Renewed
    <3> QED
        BY <1>4, <2>1, <3>1, <3>2, KeptSame
  <2> QED
      BY <1>d, <2>2, <2>3, UnsubscribeEffect
<1>e. CASE Loaded \/ Failed \/ StreamEnded \/ StreamMisjudged
    BY <1>e, KeptHandler
<1>f. CASE StreamLogin
  <2>1. /\ subs' = subs /\ closed' = closed /\ listeners' = listeners /\ poll.at = "held"
        /\ cmds' = cmds /\ delayed' = delayed /\ adrift' = adrift
        /\ poll'.at = "held" /\ poll'.page = poll.page
      BY <1>2, <1>f, StreamLoginEffect DEF StreamLogin
  <2>2. Current' = Current /\ \A d : ~Renewed(d)
      BY <2>1 DEF Current, HeldPage, Renewed
  <2> QED
      BY <1>6, <2>1, <2>2, KeptSame
<1>g. CASE BeforeUnload
    BY <1>8, <1>g DEF BeforeUnload
<1>h. CASE Reload
    BY <1>8, <1>h, IsWithout DEF Reload, Without
<1>i. CASE PollServerRestarts
  <2>1. DOMAIN subs' = {}
      BY <1>1, <1>i, ServerLoses DEF PollServerRestarts
  <2> QED
      BY <2>1 DEF Kept
<1>j. CASE Break \/ Answer
    BY <1>j, KeptTurned
<1>k. CASE ServerPoll
    BY <1>k, KeptFound
<1>m. ASSUME NEW w \in delayed, PollTick(w)
      PROVE  Kept'
  <2>1. /\ closed' = closed /\ poll' = poll /\ GetPageId' = GetPageId /\ subs' = subs
        /\ listeners' = listeners /\ delayed' = delayed \ {w}
      BY <1>2, <1>3, <1>m, TickEffect
  <2>2. CASE closed
      BY <1>8, <2>1, <2>2
  <2>3. CASE Goes(w.n, "subscibe", w.dests) /\ adrift' = adrift
      BY <1>9, <2>1, <2>3, Replaced
  <2>4. CASE cmds' = cmds /\ adrift' = adrift \cup w.dests
    <3>1. \A d \in Dest \ adrift' : Pending(d) => Pending(d)'
        BY <2>1, <2>4 DEF Pending
    <3> QED
        BY <1>9, <2>1, <2>4, <3>1
  <2> QED
      BY <1>m, <2>2, <2>3, <2>4, TickEffect
<1>n. ASSUME NEW c \in cmds, ServerCommand(c)
      PROVE  Kept'
    BY <1>n, KeptCommand
<1>o. ASSUME NEW c \in cmds, LoseCommand(c)
      PROVE  Kept'
  <2>1. /\ UNCHANGED <<server, client, poll, delayed>> /\ cmds' = cmds \ {c}
        /\ adrift' = adrift \cup c.dests
      BY <1>o DEF LoseCommand
  <2>2. \A d \in Dest \ adrift' : Pending(d) => Pending(d)'
      BY <2>1 DEF Pending
  <2> QED
      BY <1>2, <1>3, <1>9, <2>1, <2>2
<1>p. ASSUME NEW p \in DOMAIN subs, PollPageExpires(p)
      PROVE  Kept'
  <2>1. UNCHANGED <<client, poll, cmds, delayed, adrift>> /\ Expire(p)
      BY <1>p DEF PollPageExpires
  <2>2. DOMAIN subs' \subseteq DOMAIN subs /\ \A q \in DOMAIN subs' : subs'[q] = subs[q]
      BY <1>1, <1>p, <2>1, ServerLoses
  <2> QED
      BY <1>3, <1>4, <1>6, <1>7, <2>1, <2>2, KeptSame DEF Kept
<1>q. ASSUME NEW t \in sessions, PollSessionExpires(t)
      PROVE  Kept'
  <2>1. UNCHANGED <<client, poll, cmds, delayed, adrift>> /\ subs' = subs
      BY <1>q DEF PollSessionExpires, ForgetSession
  <2> QED
      BY <1>3, <1>6, <1>9, <2>1
<1>r. CASE UNCHANGED pollVars
    BY <1>2, <1>3, <1>6, <1>9, <1>r DEF pollVars
<1> QED
    BY <1>a, <1>b, <1>c, <1>d, <1>e, <1>f, <1>g, <1>h, <1>i, <1>j, <1>k,
       <1>m, <1>n, <1>o, <1>p, <1>q, <1>r DEF PollNext, PollCalls, Handlers, PollTroubles

-----------------------------------------------------------------------------
(* The theorems                                                            *)

LEMMA Started ==
    ASSUME PollClientAssumption, PollInit
    PROVE  IInv
PROOF
<1>1. /\ created = 0 /\ sessions = {} /\ nextPage = << >> /\ subs = << >>
      /\ closed = FALSE /\ listeners = {} /\ pageId = NoId /\ cached = NoId
      /\ connected = FALSE /\ poll = NoPoll /\ cmds = {} /\ delayed = {}
      /\ called = 0 /\ mishaps = 0 /\ adrift = {}
    BY DEF PollInit, ServerInit, ClientInit
<1>2. ServerTypeOK
  <2>1. DOMAIN subs = {} /\ nextPage \in [1..0 -> Nat]
      BY <1>1
  <2> QED
      BY <1>1, <2>1 DEF ServerTypeOK
<1>3. NoId \in PageId /\ NoId \in Nat \X {0} /\ NoId[1] = 0
    BY DEF NoId, PageId
<1>4. poll \in Poll_ /\ poll.at = "none" /\ poll.login = NoId
    BY <1>1, <1>3 DEF NoPoll, Poll_
<1>5. Types
  <2>1. ClientTypeOK
      BY <1>1, <1>3 DEF ClientTypeOK
  <2>2. called \in 0..MaxCalls /\ mishaps \in 0..MaxFaults
      BY <1>1 DEF PollClientAssumption
  <2>3. \A c \in cmds \cup delayed : c \in Command_ /\ c.n \in 1..called
      BY <1>1
  <2> QED
      BY <1>1, <1>2, <1>4, <2>1, <2>2, <2>3 DEF Types
<1>6. Issued(pageId) /\ Issued(cached)
    BY <1>1, <1>3 DEF Issued
<1>7. Ids
    BY <1>1, <1>4, <1>6 DEF Ids
<1>8. Closing /\ Named /\ Kept
    BY <1>1, <1>4 DEF Closing, Named, Kept
<1> QED
    BY <1>5, <1>7, <1>8 DEF IInv

LEMMA Step ==
    ASSUME PollClientAssumption, IInv, [PollNext]_pollVars
    PROVE  IInv'
    BY TypesStep, IdsStep, ClosingStep, NamedStep, KeptStep DEF IInv

\* Every reachable state satisfies the inductive invariant.
THEOREM Invariance ==
    ASSUME PollClientAssumption
    PROVE  PollSpec => []IInv
PROOF
<1>1. PollInit => IInv
    BY Started
<1>2. IInv /\ [PollNext]_pollVars => IInv'
    BY Step
<1> QED
    BY <1>1, <1>2, PTL DEF PollSpec

\* The client, its request, its commands and the server keep to their types.
THEOREM Typing ==
    ASSUME PollClientAssumption
    PROVE  PollSpec => []PollTypeOK
PROOF
<1>1. IInv => PollTypeOK
    BY TypesSuffice DEF IInv
<1> QED
    BY <1>1, Invariance, PTL

(***************************************************************************)
(* Once quiet, the client knows the page that its request is held for, and *)
(* that page has exactly the destinations the client listens to, but for   *)
(* those adrift (listen and command of the server; longPolling,            *)
(* httpStreaming, sendHttpRequest, getPageId of webmq.js).                 *)
(***************************************************************************)
THEOREM PageAgrees ==
    ASSUME PollClientAssumption
    PROVE  PollSpec => []Agree
PROOF
<1>1. ASSUME IInv, PollQuiet
      PROVE  GetPageId = HeldPage
    BY <1>1 DEF IInv, Ids, PollQuiet, HeldPage
<1>2. ASSUME IInv, PollQuiet, ~closed
      PROVE  /\ HeldPage \in DOMAIN subs
             /\ \A d \in Dest \ adrift : d \in listeners <=> d \in subs[HeldPage]
  <2>1. poll.at = "held" /\ cmds = {} /\ delayed = {} /\ Current = HeldPage
      BY <1>2 DEF PollQuiet, Current
  <2>2. HeldPage \in DOMAIN subs
      BY <1>2, <2>1 DEF IInv, Closing
  <2>3. \A d : ~Pending(d) /\ ~Renewed(d)
      BY <2>1 DEF Pending, Renewed
  <2> QED
      BY <1>2, <2>1, <2>2, <2>3 DEF IInv, Kept
<1>3. IInv => Agree
    BY <1>1, <1>2 DEF Agree
<1> QED
    BY <1>3, Invariance, PTL

LEMMA SilentStep ==
    ASSUME PollClientAssumption, Types, [PollNext]_pollVars
    PROVE  AsksNothing
PROOF
<1> SUFFICES ASSUME closed, closed'
             PROVE  cmds' \subseteq cmds /\ (poll' # poll => poll'.at # "sent")
    BY DEF AsksNothing
<1>1. ~PollPublish /\ ~PollClose
    BY PublishEffect, CloseEffect
<1>2. \A D \in SUBSET Dest : ~PollSubscribe(D) /\ ~PollUnsubscribe(D)
    BY SubscribeEffect, UnsubscribeEffect
<1>3. Loaded \/ Failed \/ StreamEnded \/ StreamMisjudged => cmds' = cmds /\ poll'.at # "sent"
    BY HandlerEffect DEF Without
<1>4. StreamLogin => cmds' = cmds /\ poll'.at # "sent"
    BY StreamLoginEffect DEF StreamLogin
<1>5. BeforeUnload => cmds' = cmds /\ poll' = poll
    BY DEF BeforeUnload
<1>6. ~Reload
    BY DEF Reload
<1>7. PollServerRestarts \/ Break \/ Answer =>
         cmds' = cmds /\ (poll' = poll \/ poll'.at # "sent")
    BY TurnEffect DEF Turned, PollServerRestarts, Break, Answer
<1>8. ServerPoll => cmds' = cmds /\ poll'.at # "sent"
    BY ServerPollEffect
<1>9. \A w \in delayed : PollTick(w) => cmds' = cmds /\ poll' = poll
    BY TickEffect
<1>10. \A c \in cmds : ServerCommand(c) \/ LoseCommand(c) =>
          cmds' \subseteq cmds /\ poll' = poll
    BY DEF ServerCommand, LoseCommand
<1>11. /\ \A p \in DOMAIN subs : PollPageExpires(p) => cmds' = cmds /\ poll' = poll
       /\ \A t \in sessions : PollSessionExpires(t) => cmds' = cmds /\ poll' = poll
       /\ UNCHANGED pollVars => cmds' = cmds /\ poll' = poll
    BY DEF PollPageExpires, PollSessionExpires, pollVars
<1> QED
    BY <1>1, <1>2, <1>3, <1>4, <1>5, <1>6, <1>7, <1>8, <1>9, <1>10, <1>11
       DEF PollNext, PollCalls, Handlers, PollTroubles

(***************************************************************************)
(* A closed client makes no request, from its loop, an interval or a call, *)
(* until the window is loaded again (checkConnection, getPageId, the       *)
(* closed flag that longPolling and httpStreaming read).                   *)
(***************************************************************************)
THEOREM ClosedAsksNothing ==
    ASSUME PollClientAssumption
    PROVE  PollSpec => Silent
PROOF
<1>1. IInv /\ [PollNext]_pollVars => AsksNothing
    BY SilentStep DEF IInv
<1> QED
    BY <1>1, Invariance, PTL DEF PollSpec, Silent
=============================================================================
