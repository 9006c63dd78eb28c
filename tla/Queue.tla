------------------------------- MODULE Queue -------------------------------
(***************************************************************************)
(* One queue destination (Queue, Destination), the web pages that listen   *)
(* to it, and the server threads that work on it at the same time:         *)
(*                                                                         *)
(*   publish      Queue.messageReceived: try each page, else store         *)
(*   subscribe    Destination.registerPage: drain, put, link               *)
(*   poll         WebPage.registerChannel: drain once per link             *)
(*   unsubscribe  Destination.unRegisterPage: unlink, remove               *)
(*   invalidate   WebPage.invalidate, by the session timer, or inside a    *)
(*                publish or a drain that meets an expired page            *)
(*                                                                         *)
(* Every access to a shared collection is a step of its own.  A page is    *)
(* seen from the queue: WebPage.messageReceived takes effect in one step,  *)
(* the moment its listener claims the channel.                             *)
(***************************************************************************)
EXTENDS Integers, Sequences, FiniteSets

CONSTANTS
    Thread,       \* Netty workers and timer threads
    Listeners,    \* the threads that serve subscribe, poll and unsubscribe
    Message,      \* each is published at most once
    Page,
    LongPolling,  \* pages whose channel takes one response per poll
    Transient,    \* pages whose browser may disconnect or unsubscribe
    MaxPending,   \* MAX_PENDING_QUEUE_SIZE, 20 in the code
    MaxLinks,     \* bound: entries of this queue in a page's destinations
    Null          \* what ConcurrentLinkedQueue.poll finds in an empty queue

ASSUME QueueAssumption ==
    /\ IsFiniteSet(Thread)
    /\ Listeners \subseteq Thread
    /\ LongPolling \subseteq Page
    /\ Transient \subseteq Page
    /\ MaxPending \in Nat
    /\ MaxLinks \in Nat
    /\ Null \notin Message
    /\ Null \notin Page

VARIABLES
    buffered,   \* the queue's ConcurrentLinkedQueue
    pages,      \* the pages in the destination's ConcurrentHashMap
    links,      \* links[p]: entries of this queue in page p's destinations
    channel,    \* channel[p]: "writable", "answered" or "closed"
    idle,       \* idle[p]: p was last accessed over WEB_PAGE_MAX_IDLE_TIME ago
    live,       \* live[p]: p is still in its session
    op,         \* op[t]: the operation thread t runs
    pc,         \* pc[t]: its next step
    msg,        \* msg[t]: the message t publishes
    page,       \* page[t]: the page t subscribes, polls for or invalidates
    todo,       \* todo[t]: pages t's iterator has yet to visit
    rounds,     \* rounds[t]: calls of notifyConsumeMessages t has yet to make
    room,       \* room[t]: length of the array t drains into
    batch,      \* batch[t]: that array, as filled, or as left to re-offer
    entries,    \* entries[t]: calls of unRegisterPage t has yet to make
    published, refused, lost,   \* history: messages by what became of them
    copies,     \* history: copies[m]: times m was written to a channel
    reoffered   \* history: a drained message went back to the queue

destination == <<buffered, pages>>
web         == <<links, channel, idle, live>>
control     == <<op, pc, page>>
draining    == <<rounds, room, batch>>
history     == <<published, refused, lost, copies, reoffered>>
vars == <<destination, web, control, msg, todo, draining, entries, history>>

Channels == {"writable", "answered", "closed"}
Ops == {"none", "publish", "subscribe", "poll", "unsubscribe", "invalidate"}
Steps == {"idle", "check", "iterate", "size", "offer", "connect", "drain",
          "fill", "hand", "reoffer", "put", "link", "close", "leave", "unlink",
          "remove"}

SharedOK ==
    /\ buffered \in Seq(Message)
    /\ pages \subseteq Page
    /\ links \in [Page -> Nat]
    /\ channel \in [Page -> Channels]
    /\ idle \in [Page -> BOOLEAN]
    /\ live \in [Page -> BOOLEAN]

ThreadOK ==
    /\ op \in [Thread -> Ops]
    /\ pc \in [Thread -> Steps]
    /\ msg \in [Thread -> Message \cup {Null}]
    /\ page \in [Thread -> Page \cup {Null}]
    /\ todo \in [Thread -> SUBSET Page]
    /\ rounds \in [Thread -> Nat]
    /\ room \in [Thread -> Nat]
    /\ batch \in [Thread -> Seq(Message \cup {Null})]
    /\ entries \in [Thread -> Nat]

HistoryOK ==
    /\ published \subseteq Message
    /\ refused \subseteq Message
    /\ lost \subseteq Message
    /\ copies \in [Message -> Nat]
    /\ reoffered \in BOOLEAN

TypeOK == SharedOK /\ ThreadOK /\ HistoryOK

\* The pages have made their first listen request: a long-polling page was
\* answered with its page id, the others keep their channel open.
Init ==
    /\ buffered = << >>
    /\ pages = {}
    /\ links = [p \in Page |-> 0]
    /\ channel = [p \in Page |->
                    IF p \in LongPolling THEN "answered" ELSE "writable"]
    /\ idle = [p \in Page |-> FALSE]
    /\ live = [p \in Page |-> TRUE]
    /\ op = [t \in Thread |-> "none"]
    /\ pc = [t \in Thread |-> "idle"]
    /\ msg = [t \in Thread |-> Null]
    /\ page = [t \in Thread |-> Null]
    /\ todo = [t \in Thread |-> {}]
    /\ rounds = [t \in Thread |-> 0]
    /\ room = [t \in Thread |-> 0]
    /\ batch = [t \in Thread |-> << >>]
    /\ entries = [t \in Thread |-> 0]
    /\ published = {}
    /\ refused = {}
    /\ lost = {}
    /\ copies = [m \in Message |-> 0]
    /\ reoffered = FALSE

-----------------------------------------------------------------------------
(* Control: a thread goes on to a step, begins an operation or ends it.    *)

Goto(t, step) == pc' = [pc EXCEPT ![t] = step]

Begin(t, what, p, step) ==
    /\ pc[t] = "idle"
    /\ op' = [op EXCEPT ![t] = what]
    /\ page' = [page EXCEPT ![t] = p]
    /\ Goto(t, step)

End(t) ==
    /\ op' = [op EXCEPT ![t] = "none"]
    /\ page' = [page EXCEPT ![t] = Null]
    /\ Goto(t, "idle")

\* Nothing changes but where the thread is.
Move(t, step) ==
    /\ Goto(t, step)
    /\ UNCHANGED <<destination, web, op, page, msg, todo, draining, entries,
                   history>>

Return(t) ==
    /\ End(t)
    /\ UNCHANGED <<destination, web, msg, todo, draining, entries, history>>

-----------------------------------------------------------------------------
(* A page as the queue sees it.                                            *)

Messages(s) == {s[i] : i \in DOMAIN s} \ {Null}

Count(m, s) == Cardinality({i \in DOMAIN s : s[i] = m})

IsValid(p) == channel[p] # "closed" \/ ~idle[p]

\* A long-polling listener is done with its channel once it has written; it
\* writes nothing when every command is null.
Answered(p, s) ==
    IF p \in LongPolling /\ Messages(s) # {}
    THEN [channel EXCEPT ![p] = "answered"]
    ELSE channel

\* Page p takes the commands s: they are written, the access time is renewed.
Deliver(p, s) ==
    /\ channel[p] = "writable"
    /\ channel' = Answered(p, s)
    /\ idle' = [idle EXCEPT ![p] = FALSE]
    /\ copies' = [m \in Message |-> copies[m] + Count(m, s)]
    /\ UNCHANGED <<links, live, published, refused, lost, reoffered>>

\* Page p takes nothing and stays as it is.
Decline(p) == IsValid(p) /\ channel[p] # "writable"

-----------------------------------------------------------------------------
(* publish                                                                 *)

Publish(t, m) ==
    /\ m \notin published
    /\ Begin(t, "publish", Null, "check")
    /\ published' = published \cup {m}
    /\ msg' = [msg EXCEPT ![t] = m]
    /\ UNCHANGED <<destination, web, todo, draining, entries,
                   refused, lost, copies, reoffered>>

\* The lookup of previousSessionId between the test and the loop never finds a
\* page: pages is keyed by page ids, which contain a separator.
CheckPages(t) ==
    /\ pc[t] = "check"
    /\ Goto(t, IF pages = {} THEN "size" ELSE "iterate")
    /\ todo' = [todo EXCEPT ![t] = pages]
    /\ UNCHANGED <<destination, web, op, page, msg, draining, entries, history>>

AtPage(t, p) == pc[t] = "iterate" /\ p \in todo[t]

Visited(t, p) == todo' = [todo EXCEPT ![t] = @ \ {p}]

\* Faulty: the loop lacks its return.
PageTakesGoesOn(t, p) ==
    /\ AtPage(t, p)
    /\ Deliver(p, <<msg[t]>>)
    /\ Visited(t, p)
    /\ UNCHANGED <<destination, control, msg, draining, entries>>

PageTakes(t, p) ==
    /\ AtPage(t, p)
    /\ Deliver(p, <<msg[t]>>)
    /\ End(t)
    /\ msg' = [msg EXCEPT ![t] = Null]
    /\ todo' = [todo EXCEPT ![t] = {}]
    /\ UNCHANGED <<destination, draining, entries>>

PageDeclines(t, p) ==
    /\ AtPage(t, p)
    /\ Decline(p)
    /\ Visited(t, p)
    /\ UNCHANGED <<destination, web, control, msg, draining, entries, history>>

PageExpired(t, p) ==
    /\ AtPage(t, p)
    /\ ~IsValid(p)
    /\ Visited(t, p)
    /\ page' = [page EXCEPT ![t] = p]
    /\ Goto(t, "close")
    /\ UNCHANGED <<destination, web, op, msg, draining, entries, history>>

\* The map's iterator need not show an entry that was removed meanwhile.
SkipRemoved(t, p) ==
    /\ AtPage(t, p)
    /\ p \notin pages
    /\ Visited(t, p)
    /\ UNCHANGED <<destination, web, control, msg, draining, entries, history>>

PagesExhausted(t) ==
    /\ pc[t] = "iterate"
    /\ todo[t] = {}
    /\ Move(t, "size")

\* Faulty: storeItem does not look at the size.
RoomAlways == TRUE

\* storeItem: the test and the offer are two steps.
HasRoom == Len(buffered) <= MaxPending

Refuse(t) ==
    /\ pc[t] = "size"
    /\ ~HasRoom
    /\ refused' = refused \cup {msg[t]}
    /\ msg' = [msg EXCEPT ![t] = Null]
    /\ End(t)
    /\ UNCHANGED <<destination, web, todo, draining, entries,
                   published, lost, copies, reoffered>>

FindRoom(t) ==
    /\ pc[t] = "size"
    /\ HasRoom
    /\ Move(t, "offer")

Offer(t) ==
    /\ pc[t] = "offer"
    /\ buffered' = Append(buffered, msg[t])
    /\ msg' = [msg EXCEPT ![t] = Null]
    /\ End(t)
    /\ UNCHANGED <<pages, web, todo, draining, entries, history>>

-----------------------------------------------------------------------------
(* notifyConsumeMessages, called rounds[t] times by subscribe and poll.    *)

\* Faulty: an array with room to spare.
ArrayTooLong == Len(buffered) + 2

\* isEmpty and size, then an array of that length.
ArrayLength == Len(buffered)

NothingBuffered(t) ==
    /\ pc[t] = "drain"
    /\ rounds[t] > 0
    /\ buffered = << >>
    /\ rounds' = [rounds EXCEPT ![t] = @ - 1]
    /\ UNCHANGED <<destination, web, control, msg, todo, room, batch, entries,
                   history>>

Measure(t) ==
    /\ pc[t] = "drain"
    /\ rounds[t] > 0
    /\ buffered # << >>
    /\ room' = [room EXCEPT ![t] = ArrayLength]
    /\ Goto(t, "fill")
    /\ UNCHANGED <<destination, web, op, page, msg, todo, rounds, batch,
                   entries, history>>

\* Faulty: peek in the place of poll.
TailKept(s) == s

\* poll: the element is Null when other threads have emptied the queue.
Head0(s) == IF s = << >> THEN Null ELSE Head(s)
Tail0(s) == IF s = << >> THEN s ELSE Tail(s)

PollItem(t) ==
    /\ pc[t] = "fill"
    /\ batch' = [batch EXCEPT ![t] = Append(@, Head0(buffered))]
    /\ buffered' = Tail0(buffered)
    /\ Goto(t, IF Len(batch[t]) + 1 < room[t] THEN "fill" ELSE "hand")
    /\ UNCHANGED <<pages, web, op, page, msg, todo, rounds, room, entries,
                   history>>

EndRound(t) ==
    /\ rounds' = [rounds EXCEPT ![t] = @ - 1]
    /\ room' = [room EXCEPT ![t] = 0]
    /\ batch' = [batch EXCEPT ![t] = << >>]

BatchTaken(t) ==
    /\ pc[t] = "hand"
    /\ Deliver(page[t], batch[t])
    /\ EndRound(t)
    /\ Goto(t, "drain")
    /\ UNCHANGED <<destination, op, page, msg, todo, entries>>

\* Faulty: the result of messageReceived is ignored.
BatchForgotten(t) ==
    /\ pc[t] = "hand"
    /\ Decline(page[t])
    /\ EndRound(t)
    /\ Goto(t, "drain")
    /\ UNCHANGED <<destination, web, op, page, msg, todo, entries, history>>

BatchDeclined(t) ==
    /\ pc[t] = "hand"
    /\ Decline(page[t])
    /\ Move(t, "reoffer")

BatchExpired(t) ==
    /\ pc[t] = "hand"
    /\ ~IsValid(page[t])
    /\ Move(t, "close")

\* A declined batch goes back to the end of the queue, past storeItem's test.
Reoffer(t) ==
    /\ pc[t] = "reoffer"
    /\ batch[t] # << >>
    /\ Head(batch[t]) # Null
    /\ buffered' = Append(buffered, Head(batch[t]))
    /\ batch' = [batch EXCEPT ![t] = Tail(@)]
    /\ reoffered' = TRUE
    /\ UNCHANGED <<pages, web, control, msg, todo, rounds, room, entries,
                   published, refused, lost, copies>>

\* offer(null) throws: what is left of the batch is dropped and the exception
\* ends the whole operation.
ReofferNull(t) ==
    /\ pc[t] = "reoffer"
    /\ batch[t] # << >>
    /\ Head(batch[t]) = Null
    /\ lost' = lost \cup Messages(batch[t])
    /\ batch' = [batch EXCEPT ![t] = << >>]
    /\ room' = [room EXCEPT ![t] = 0]
    /\ rounds' = [rounds EXCEPT ![t] = 0]
    /\ End(t)
    /\ UNCHANGED <<destination, web, msg, todo, entries,
                   published, refused, copies, reoffered>>

Reoffered(t) ==
    /\ pc[t] = "reoffer"
    /\ batch[t] = << >>
    /\ EndRound(t)
    /\ Goto(t, "drain")
    /\ UNCHANGED <<destination, web, op, page, msg, todo, entries, history>>

-----------------------------------------------------------------------------
(* poll: the page is looked up in its session, then it gets the request's  *)
(* channel.  A browser asks again once its last response is complete.      *)

Poll(t, p) ==
    /\ t \in Listeners
    /\ live[p]
    /\ channel[p] # "writable"
    /\ Begin(t, "poll", p, "connect")
    /\ UNCHANGED <<destination, web, msg, todo, draining, entries, history>>

\* Faulty: registerChannel does not call the destinations.
PollSilently(p) == 0

PollRounds(p) == links[p]

Connect(t) ==
    /\ pc[t] = "connect"
    /\ channel' = [channel EXCEPT ![page[t]] = "writable"]
    /\ idle' = [idle EXCEPT ![page[t]] = FALSE]
    /\ rounds' = [rounds EXCEPT ![t] = PollRounds(page[t])]
    /\ Goto(t, "drain")
    /\ UNCHANGED <<destination, links, live, op, page, msg, todo, room, batch,
                   entries, history>>

PollDone(t) ==
    /\ pc[t] = "drain"
    /\ op[t] = "poll"
    /\ rounds[t] = 0
    /\ Return(t)

-----------------------------------------------------------------------------
(* subscribe: registerPage drains before it puts the page into the map.    *)

Linking(p) == {t \in Thread : op[t] = "subscribe" /\ page[t] = p}

Subscribe(t, p) ==
    /\ t \in Listeners
    /\ live[p]
    /\ links[p] + Cardinality(Linking(p)) < MaxLinks
    /\ Begin(t, "subscribe", p, "drain")
    /\ rounds' = [rounds EXCEPT ![t] = 1]
    /\ UNCHANGED <<destination, web, msg, todo, room, batch, entries, history>>

SubscribeDrained(t) ==
    /\ pc[t] = "drain"
    /\ op[t] = "subscribe"
    /\ rounds[t] = 0
    /\ Move(t, "put")

\* A publisher's iterator may or may not show the new entry.
Put(t) ==
    /\ pc[t] = "put"
    /\ page[t] \notin pages
    /\ pages' = pages \cup {page[t]}
    /\ \E seen \in SUBSET {u \in Thread : pc[u] = "iterate"} :
          todo' = [u \in Thread |->
                     IF u \in seen THEN todo[u] \cup {page[t]} ELSE todo[u]]
    /\ Goto(t, "link")
    /\ UNCHANGED <<buffered, web, op, page, msg, draining, entries, history>>

AlreadyPut(t) ==
    /\ pc[t] = "put"
    /\ page[t] \in pages
    /\ Return(t)

Link(t) ==
    /\ pc[t] = "link"
    /\ links' = [links EXCEPT ![page[t]] = @ + 1]
    /\ idle' = [idle EXCEPT ![page[t]] = FALSE]
    /\ End(t)
    /\ UNCHANGED <<destination, channel, live, msg, todo, draining, entries,
                   history>>

-----------------------------------------------------------------------------
(* unsubscribe and invalidate: unRegisterPage once per entry.              *)

Unsubscribe(t, p) ==
    /\ t \in Listeners
    /\ p \in Transient
    /\ live[p]
    /\ Begin(t, "unsubscribe", p, "unlink")
    /\ entries' = [entries EXCEPT ![t] = 1]
    /\ UNCHANGED <<destination, web, msg, todo, draining, history>>

\* Session.heartbeat meets an expired page, or the browser sends a close
\* command.
Invalidate(t, p) ==
    /\ live[p]
    /\ ~IsValid(p) \/ (t \in Listeners /\ p \in Transient)
    /\ Begin(t, "invalidate", p, "close")
    /\ UNCHANGED <<destination, web, msg, todo, draining, entries, history>>

CloseChannel(t) ==
    /\ pc[t] = "close"
    /\ channel' = [channel EXCEPT ![page[t]] = "closed"]
    /\ Goto(t, "leave")
    /\ UNCHANGED <<destination, links, idle, live, op, page, msg, todo,
                   draining, entries, history>>

LeaveSession(t) ==
    /\ pc[t] = "leave"
    /\ live' = [live EXCEPT ![page[t]] = FALSE]
    /\ entries' = [entries EXCEPT ![t] = links[page[t]]]
    /\ Goto(t, "unlink")
    /\ UNCHANGED <<destination, links, channel, idle, op, page, msg, todo,
                   draining, history>>

\* Faulty: an entry is counted off though there is none.
OneLessAlways(n) == n - 1

\* destinations.remove: one entry, if there is one.
OneLess(n) == IF n = 0 THEN 0 ELSE n - 1

Unlink(t) ==
    /\ pc[t] = "unlink"
    /\ entries[t] > 0
    /\ links' = [links EXCEPT ![page[t]] = OneLess(@)]
    /\ Goto(t, "remove")
    /\ UNCHANGED <<destination, channel, idle, live, op, page, msg, todo,
                   draining, entries, history>>

Remove(t) ==
    /\ pc[t] = "remove"
    /\ pages' = pages \ {page[t]}
    /\ entries' = [entries EXCEPT ![t] = @ - 1]
    /\ Goto(t, "unlink")
    /\ UNCHANGED <<buffered, web, op, page, msg, todo, draining, history>>

Unsubscribed(t) ==
    /\ pc[t] = "unlink"
    /\ entries[t] = 0
    /\ op[t] = "unsubscribe"
    /\ Return(t)

\* destinations.clear, and back to the caller of invalidate.
ClearLinks(t) ==
    /\ pc[t] = "unlink"
    /\ entries[t] = 0
    /\ links' = [links EXCEPT ![page[t]] = 0]
    /\ UNCHANGED <<destination, channel, idle, live, msg, todo, draining,
                   entries, history>>

Invalidated(t) ==
    /\ ClearLinks(t)
    /\ op[t] = "invalidate"
    /\ End(t)

BackToPublish(t) ==
    /\ ClearLinks(t)
    /\ op[t] = "publish"
    /\ page' = [page EXCEPT ![t] = Null]
    /\ Goto(t, "iterate")
    /\ UNCHANGED op

BackToDrain(t) ==
    /\ ClearLinks(t)
    /\ op[t] \in {"subscribe", "poll"}
    /\ Goto(t, "reoffer")
    /\ UNCHANGED <<op, page>>

-----------------------------------------------------------------------------
(* The browsers and the clock.                                             *)

Disconnect(p) ==
    /\ p \in Transient
    /\ channel[p] # "closed"
    /\ channel' = [channel EXCEPT ![p] = "closed"]
    /\ UNCHANGED <<destination, links, idle, live, control, msg, todo,
                   draining, entries, history>>

\* An operation on a page takes far less than the idle time.
BecomeIdle(p) ==
    /\ ~idle[p]
    /\ \A t \in Thread : page[t] # p
    /\ idle' = [idle EXCEPT ![p] = TRUE]
    /\ UNCHANGED <<destination, links, channel, live, control, msg, todo,
                   draining, entries, history>>

\* WebPage.heartbeat writes a command of its own to a page left alone for
\* HEARTBEAT_INTEVAL, a time in which the page becomes idle first.
Heartbeat(p) ==
    /\ live[p]
    /\ idle[p]
    /\ p \in LongPolling
    /\ channel[p] = "writable"
    /\ channel' = [channel EXCEPT ![p] = "answered"]
    /\ UNCHANGED <<destination, links, idle, live, control, msg, todo,
                   draining, entries, history>>

-----------------------------------------------------------------------------

PublishStep(t) ==
    \/ CheckPages(t) \/ PagesExhausted(t)
    \/ \E p \in Page : \/ PageTakes(t, p) \/ PageDeclines(t, p)
                       \/ PageExpired(t, p) \/ SkipRemoved(t, p)
    \/ Refuse(t) \/ FindRoom(t) \/ Offer(t)

DrainStep(t) ==
    \/ NothingBuffered(t) \/ Measure(t) \/ PollItem(t)
    \/ BatchTaken(t) \/ BatchDeclined(t) \/ BatchExpired(t)
    \/ Reoffer(t) \/ ReofferNull(t) \/ Reoffered(t)
    \/ Connect(t) \/ PollDone(t) \/ SubscribeDrained(t)

RegistryStep(t) ==
    \/ Put(t) \/ AlreadyPut(t) \/ Link(t)
    \/ CloseChannel(t) \/ LeaveSession(t)
    \/ Unlink(t) \/ Remove(t) \/ Unsubscribed(t)
    \/ Invalidated(t) \/ BackToPublish(t) \/ BackToDrain(t)

\* The steps of an operation that has begun.
Step(t) == PublishStep(t) \/ DrainStep(t) \/ RegistryStep(t)

Request(t) ==
    \/ \E m \in Message : Publish(t, m)
    \/ \E p \in Page : \/ Poll(t, p) \/ Subscribe(t, p)
                       \/ Unsubscribe(t, p) \/ Invalidate(t, p)

Environment(p) == Disconnect(p) \/ BecomeIdle(p) \/ Heartbeat(p)

Next ==
    \/ \E t \in Thread : Step(t) \/ Request(t)
    \/ \E p \in Page : Environment(p)

Spec == Init /\ [][Next]_vars

\* Threads finish what they have begun.  The browser of a page that is not
\* transient subscribes, polls whenever its last response is complete, and
\* the session timer sends it a heartbeat when nothing else happens.
Fairness ==
    /\ \A t \in Thread : WF_vars(Step(t))
    /\ \A p \in Page \ Transient :
          /\ SF_vars(\E t \in Thread : Poll(t, p))
          /\ SF_vars(\E t \in Thread : links[p] = 0 /\ Subscribe(t, p))
          /\ WF_vars(BecomeIdle(p))
          /\ WF_vars(Heartbeat(p))

FairSpec == Spec /\ Fairness
=============================================================================
