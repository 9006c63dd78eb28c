----------------------------- MODULE PageServer -----------------------------
(***************************************************************************)
(* The server as one browser window meets it: the sessions and pages it    *)
(* knows, and the destinations of each page.  What a queue or a page does  *)
(* with a message is in Queue.tla and WebPage.tla.                         *)
(*                                                                         *)
(* A page id in the code is a session id, a "|" and a number; here it is   *)
(* the pair <<session, number>>.  A bare session id has the number 0.      *)
(***************************************************************************)
EXTENDS Naturals, FiniteSets, Functions

CONSTANT Dest       \* destinations, each a name with its type

VARIABLES
    sessions,       \* the sessions the SessionManager knows
    created,        \* number of sessions ever created: their ids are fresh
    nextPage,       \* nextPage[s]: the session's AtomicInteger
    subs            \* subs[p]: the destinations of page p; its domain is
                    \* the set of pages that are in their session

server == <<sessions, created, nextPage, subs>>

NoId == <<0, 0>>
PageId == Nat \X Nat

ServerTypeOK ==
    /\ created \in Nat
    /\ sessions \subseteq 1..created
    /\ nextPage \in [1..created -> Nat]
    /\ DOMAIN subs \subseteq PageId
    /\ \A p \in DOMAIN subs :
          p[1] \in sessions /\ p[2] \in 1..nextPage[p[1]] /\ subs[p] \subseteq Dest

ServerInit ==
    /\ sessions = {} /\ created = 0 /\ nextPage = << >>
    /\ subs = << >>

(***************************************************************************)
(* getPage(request, true) of a /ls request: the page of that id, or a new  *)
(* page of that session, or a new page of a new session.                   *)
(***************************************************************************)
Session(id) == IF id[1] \in sessions THEN id[1] ELSE created + 1

Lookup(id) ==
    IF id \in DOMAIN subs THEN id
    ELSE <<Session(id), IF id[1] \in sessions THEN nextPage[id[1]] + 1 ELSE 1>>

IsNew(id) == id \notin DOMAIN subs

(***************************************************************************)
(* ListenHandler.handle: find or create the page, register the channel,    *)
(* subscribe to the destinations in the url.                               *)
(***************************************************************************)
Listen(id, dests) ==
    LET p == Lookup(id) IN
    /\ sessions' = sessions \cup {p[1]}
    /\ created' = IF p[1] > created THEN p[1] ELSE created
    /\ nextPage' = [s \in 1..created' |-> IF s = p[1] /\ IsNew(id) THEN p[2] ELSE nextPage[s]]
    /\ subs' = [q \in DOMAIN subs \cup {p} |->
                  IF q = p THEN dests \cup (IF IsNew(id) THEN {} ELSE subs[p])
                  ELSE subs[q]]

(***************************************************************************)
(* CommandHandler.dealCommand for page p.  A page that is gone is null for *)
(* a /s request, and the command fails.                                    *)
(***************************************************************************)
Command(p, type, dests) ==
    /\ subs' = IF p \notin DOMAIN subs THEN subs
               ELSE CASE type = "subscibe"   -> [subs EXCEPT ![p] = @ \cup dests]
                      [] type = "unSubscibe" -> [subs EXCEPT ![p] = @ \ dests]
                      [] type = "close"      -> Restrict(subs, DOMAIN subs \ {p})
                      [] OTHER               -> subs
    /\ UNCHANGED <<sessions, created, nextPage>>

\* WebPage.invalidate, by the session timer or by a publisher
Expire(p) ==
    /\ p \in DOMAIN subs
    /\ subs' = Restrict(subs, DOMAIN subs \ {p})
    /\ UNCHANGED <<sessions, created, nextPage>>

\* the session timer removes a session that had no page twice
ForgetSession(s) ==
    /\ s \in sessions
    /\ \A p \in DOMAIN subs : p[1] # s
    /\ sessions' = sessions \ {s}
    /\ UNCHANGED <<created, nextPage, subs>>

\* Faulty: pages that outlive their session
FaultyRestart ==
    /\ sessions # {}
    /\ sessions' = {}
    /\ UNCHANGED <<created, nextPage, subs>>

\* nothing is persisted: a server that starts again knows nobody
Restart ==
    /\ sessions # {}
    /\ sessions' = {} /\ subs' = << >>
    /\ UNCHANGED <<created, nextPage>>
=============================================================================
