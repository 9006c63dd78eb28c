------------------------------ MODULE MCServer ------------------------------
(***************************************************************************)
(* What the server must do in the end, in four settings: a queue, a web    *)
(* page, the registry of destinations, and that of sessions.  A behaviour  *)
(* has one setting from beginning to end; the variables of the others      *)
(* rest.  Each property assumes the fairness of its own component.         *)
(***************************************************************************)
EXTENDS Naturals, TLC

CONSTANTS t1, t2, m1, m2, p1, c1, w1, w2, Null, HB

VARIABLES
    setting,
    doing, at, buffered, pages, links, channels, inactive, present, msg,   \* Queue
    page, todo, rounds, lengths, batches, entries, written, posted, refused,
    vanished, reoffered,
    op, pc, pending, channel, idle, live, connected, writable,     \* WebPage
    header, bodies, conn, src, target, room, batch, published, copies,
    returned, missed, dropped, lost,
    domain, holders, unused, entry, made, home, critical, members, \* Registry
    own, here, serves, job, stage, holder, dest, visits, timer, ops,
    late, lateHolders, overlapped,
    sessions, opened, marked, last, numbers, online, expired,      \* Sessions
    knows, step, sess, num, pass, looked, asks, excused

queueVars == <<doing, at, buffered, pages, links, channels, inactive, present, msg,
               page, todo, rounds, lengths, batches, entries, written, posted, refused,
               vanished, reoffered>>
pageVars == <<op, pc, pending, channel, idle, live, connected, writable, header,
              bodies, conn, src, target, room, batch, published, copies,
              returned, missed, dropped, lost>>
registryVars == <<domain, holders, unused, entry, made, home, critical, members,
                  own, here, serves, job, stage, holder, dest, visits, timer, ops, late,
                  lateHolders, overlapped>>
sessionVars == <<sessions, opened, marked, last, numbers, online, expired,
                 knows, step, sess, num, pass, looked, asks, excused>>
vars == <<setting, queueVars, pageVars, registryVars, sessionVars>>

-----------------------------------------------------------------------------
Queue == INSTANCE QueueProperties WITH
    Thread <- {t1, t2}, Listeners <- {t1, t2}, Message <- {m1, m2}, Page <- {p1},
    LongPolling <- {p1}, Transient <- {}, MaxPending <- 1, MaxLinks <- 1,
    op <- doing, pc <- at, channel <- channels, idle <- inactive, live <- present, room <- lengths,
    batch <- batches, copies <- written, published <- posted, lost <- vanished

OnePage == INSTANCE WebPageProperties WITH
    Thread <- {t1, t2}, Message <- {m1, m2}, Channel <- {c1}, Transient <- {},
    LongPolling <- TRUE, MaxPending <- 1, buffered <- pending

Registry == INSTANCE Registry WITH
    Thread <- {t1, t2}, Page <- {p1}, NoPage <- Null, MaxOps <- 2,
    op <- job, pc <- stage, idle <- unused, pages <- members, links <- own, live <- here, page <- serves,
    todo <- visits

Sessions == INSTANCE Sessions WITH
    Window <- {w1, w2}, Publisher <- {}, Multiple <- 1, MaxAsks <- 2

-----------------------------------------------------------------------------
Settings == {"queue", "page", "registry", "sessions"}

Init ==
    /\ setting \in Settings
    /\ Queue!Init /\ OnePage!Init /\ Registry!Init /\ Sessions!SessionsInit

Next ==
    \/ setting = "queue" /\ Queue!Next
       /\ UNCHANGED <<setting, pageVars, registryVars, sessionVars>>
    \/ setting = "page" /\ OnePage!Next
       /\ UNCHANGED <<setting, queueVars, registryVars, sessionVars>>
    \/ setting = "registry" /\ Registry!Next
       /\ UNCHANGED <<setting, queueVars, pageVars, sessionVars>>
    \/ setting = "sessions" /\ Sessions!SessionsNext
       /\ UNCHANGED <<setting, queueVars, pageVars, registryVars>>

Spec == Init /\ [][Next]_vars

-----------------------------------------------------------------------------
QueueSettles == (setting = "queue") /\ Queue!Fairness => Queue!EventuallySettled
PageSettles == (setting = "page") /\ OnePage!Fairness => OnePage!EventuallySettled

\* A message does not stay in a queue whose page keeps polling, nor in the
\* buffer of such a page (notifyConsumeMessages, registerChannel, heartbeat)
Settles == QueueSettles /\ PageSettles

DomainForgotten == (setting = "registry") /\ Registry!Fairness => Registry!Forgotten
SessionForgotten == (setting = "sessions") /\ Sessions!SessionsFairness => Sessions!SessionsForgotten

\* A domain is forgotten, unless a page is left in its destination, and so is a
\* session of which no window is connected (the timers of DestinationHolderImpl
\* and SessionManagerImpl).
Forgotten == DomainForgotten /\ SessionForgotten
=============================================================================
