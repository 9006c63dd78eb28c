------------------------------ MODULE WebPage ------------------------------
(***************************************************************************)
(* One web page of a session, its connections, and the server threads that *)
(* deliver to it at the same time:                                         *)
(*                                                                         *)
(*   topic      messageReceived(commands, true), by Topic.messageReceived  *)
(*   queue      messageReceived(commands, false), by a Queue               *)
(*   listen     ListenHandler.handle, then registerChannel                 *)
(*   heartbeat  by the session timer                                       *)
(*   close      invalidate, by a close command                             *)
(*                                                                         *)
(* Queue.tla sees the page's messageReceived as one step; here it is taken *)
(* apart at every access to the channel reference, to the attachment and   *)
(* to the page's own buffer.  The destinations' part of registerChannel    *)
(* and of invalidate is in Queue.tla.                                      *)
(***************************************************************************)
EXTENDS Integers, Sequences, FiniteSets

CONSTANTS
    Thread, Message, Channel,
    Transient,     \* the connections that may drop
    LongPolling,   \* TRUE: one response per request; FALSE: an open stream
    MaxPending,    \* MAX_PENDING_QUEUE_SIZE, 20 in the code
    Null,          \* what ConcurrentLinkedQueue.poll finds in an empty queue
    HB             \* Constants.HEARTBEAT_COMMAND

ASSUME WebPageAssumption ==
    /\ IsFiniteSet(Thread)
    /\ Transient \subseteq Channel
    /\ LongPolling \in BOOLEAN
    /\ MaxPending \in Nat
    /\ Null \notin Message \cup Channel
    /\ HB \notin Message \cup {Null}

VARIABLES
    buffered,    \* the page's own ConcurrentLinkedQueue
    channel,     \* the AtomicReference: where to write
    idle,        \* last accessed over WEB_PAGE_MAX_IDLE_TIME ago
    live,        \* the page is in its session and in its destinations
    connected,   \* connected[c]: Channel.isConnected
    writable,    \* writable[c]: ChannelAttachment.writable
    header,      \* header[c]: the response header is out
    bodies,      \* history: bodies[c]: commands written since c's last request
    op, pc,      \* op[t], pc[t]: thread t's operation and next step
    conn,        \* conn[t]: the channel of t's request
    src,         \* src[t]: the channel registerChannel read first
    target,      \* target[t]: the channel messageReceived read
    room,        \* room[t]: length of the array registerChannel drains into
    batch,       \* batch[t]: commands in t's hands
    published, copies,              \* history: messages, times written
    returned, missed, dropped, lost \* history: the other ends of a message

page   == <<buffered, channel, idle, live>>
wire   == <<connected, writable, header, bodies>>
local  == <<op, pc, conn, src, target, room, batch>>
ends   == <<returned, missed, dropped, lost>>
vars   == <<page, wire, local, published, copies, ends>>

Ops   == {"none", "topic", "queue", "listen", "heartbeat", "close"}
Steps == {"idle", "get", "valid", "connected", "probe", "claim", "failed",
          "store", "offer", "header", "enter", "swap", "drain", "fill",
          "pulse", "close", "leave", "clear"}

TypeOK ==
    /\ buffered \in Seq(Message)
    /\ channel \in Channel
    /\ idle \in BOOLEAN /\ live \in BOOLEAN
    /\ connected \in [Channel -> BOOLEAN]
    /\ writable \in [Channel -> BOOLEAN]
    /\ header \in [Channel -> BOOLEAN]
    /\ bodies \in [Channel -> Nat]
    /\ op \in [Thread -> Ops]
    /\ pc \in [Thread -> Steps]
    /\ conn \in [Thread -> Channel \cup {Null}]
    /\ src \in [Thread -> Channel \cup {Null}]
    /\ target \in [Thread -> Channel \cup {Null}]
    /\ room \in [Thread -> Nat]
    /\ batch \in [Thread -> Seq(Message \cup {Null, HB})]
    /\ published \subseteq Message
    /\ copies \in [Message -> Nat]
    /\ returned \subseteq Message /\ missed \subseteq Message
    /\ dropped \subseteq Message /\ lost \subseteq Message

\* The page has made its first request on some channel: a long poll was
\* answered with the page id, a stream is open.
Init ==
    /\ buffered = << >>
    /\ channel \in Channel
    /\ idle = FALSE
    /\ live = TRUE
    /\ connected = [c \in Channel |-> c = channel]
    /\ writable = [c \in Channel |-> c = channel /\ ~LongPolling]
    /\ header = [c \in Channel |-> c = channel]
    /\ bodies = [c \in Channel |-> 0]
    /\ op = [t \in Thread |-> "none"]
    /\ pc = [t \in Thread |-> "idle"]
    /\ conn = [t \in Thread |-> Null]
    /\ src = [t \in Thread |-> Null]
    /\ target = [t \in Thread |-> Null]
    /\ room = [t \in Thread |-> 0]
    /\ batch = [t \in Thread |-> << >>]
    /\ published = {}
    /\ copies = [m \in Message |-> 0]
    /\ returned = {} /\ missed = {} /\ dropped = {} /\ lost = {}

-----------------------------------------------------------------------------

At(t, step) == pc[t] = step
Goto(t, step) == pc' = [pc EXCEPT ![t] = step]

Begin(t, what, step, commands) ==
    /\ At(t, "idle")
    /\ op' = [op EXCEPT ![t] = what]
    /\ batch' = [batch EXCEPT ![t] = commands]
    /\ Goto(t, step)
    /\ UNCHANGED <<src, target, room>>

End(t) ==
    /\ op' = [op EXCEPT ![t] = "none"]
    /\ conn' = [conn EXCEPT ![t] = Null]
    /\ src' = [src EXCEPT ![t] = Null]
    /\ target' = [target EXCEPT ![t] = Null]
    /\ room' = [room EXCEPT ![t] = 0]
    /\ batch' = [batch EXCEPT ![t] = << >>]
    /\ Goto(t, "idle")

\* Nothing changes but where the thread is.
Move(t, step) ==
    /\ Goto(t, step)
    /\ UNCHANGED <<page, wire, op, conn, src, target, room, batch, published,
                   copies, ends>>

Messages(s) == {s[i] : i \in DOMAIN s} \cap Message

Count(m, s) == Cardinality({i \in DOMAIN s : s[i] = m})

IsValid == connected[channel] \/ ~idle

-----------------------------------------------------------------------------
(* messageReceived                                                         *)

Publish(t, m, kind) ==
    /\ live
    /\ m \notin published
    /\ kind \in {"topic", "queue"}
    /\ Begin(t, kind, "get", <<m>>)
    /\ published' = published \cup {m}
    /\ UNCHANGED <<page, wire, conn, copies, ends>>

GetChannel(t) ==
    /\ At(t, "get")
    /\ target' = [target EXCEPT ![t] = channel]
    /\ Goto(t, "valid")
    /\ UNCHANGED <<page, wire, op, conn, src, room, batch, published, copies,
                   ends>>

Valid(t) == At(t, "valid") /\ IsValid /\ Move(t, "connected")

Expired(t) == At(t, "valid") /\ ~IsValid /\ Move(t, "close")

Online(t) == At(t, "connected") /\ connected[target[t]] /\ Move(t, "probe")

\* messageReceived returns false: a queue keeps the message, nobody else does.
\* An element of a drained array is as good as a topic's.
Fail(t, reason) ==
    /\ End(t)
    /\ IF op[t] = "queue"
       THEN /\ returned' = returned \cup Messages(batch[t])
            /\ UNCHANGED <<missed, dropped, lost>>
       ELSE /\ missed' = IF reason = "missed"
                         THEN missed \cup Messages(batch[t]) ELSE missed
            /\ dropped' = IF reason = "dropped"
                          THEN dropped \cup Messages(batch[t]) ELSE dropped
            /\ UNCHANGED <<returned, lost>>

\* The connection is down and the page not yet expired: no attempt to buffer.
Offline(t) ==
    /\ At(t, "connected")
    /\ ~connected[target[t]]
    /\ Fail(t, "missed")
    /\ UNCHANGED <<page, wire, published, copies>>

-----------------------------------------------------------------------------
(* The message listeners' onMessage: a first look at the channel, then for *)
(* long polling a test-and-set of the attachment under its lock.           *)

CanWrite(c) == ~LongPolling \/ writable[c]

Ready(t) == connected[target[t]] /\ CanWrite(target[t])

\* All elements of the array are null.
Blank(t) == \A i \in DOMAIN batch[t] : batch[t][i] = Null

ProbeFails(t) == At(t, "probe") /\ ~Ready(t) /\ Move(t, "failed")

ProbeSucceeds(t) == At(t, "probe") /\ Ready(t) /\ ~Blank(t) /\ Move(t, "claim")

NothingToWrite(t) ==
    /\ At(t, "probe")
    /\ Ready(t)
    /\ Blank(t)
    /\ End(t)
    /\ idle' = FALSE
    /\ UNCHANGED <<buffered, channel, live, wire, published, copies, ends>>

\* Faulty: the second test, under the lock, is left out.
ClaimedAnyway(t) == TRUE

Claimed(t) == CanWrite(target[t])

ClaimFails(t) == At(t, "claim") /\ ~Claimed(t) /\ Move(t, "failed")

\* Faulty: the result of onMessage is not looked at.
WrittenAndKept(t) ==
    LET c == target[t] IN
    /\ At(t, "claim")
    /\ Claimed(t)
    /\ Goto(t, "failed")
    /\ writable' = [writable EXCEPT ![c] = ~LongPolling]
    /\ bodies' = IF LongPolling THEN [bodies EXCEPT ![c] = @ + 1] ELSE bodies
    /\ copies' = [m \in Message |-> copies[m] + Count(m, batch[t])]
    /\ UNCHANGED <<page, connected, header, op, conn, src, target, room, batch,
                   published, ends>>

\* The write is asynchronous: it succeeds on a channel that has just closed.
Write(t) ==
    LET c == target[t] IN
    /\ At(t, "claim")
    /\ Claimed(t)
    /\ End(t)
    /\ writable' = [writable EXCEPT ![c] = ~LongPolling]
    /\ bodies' = IF LongPolling THEN [bodies EXCEPT ![c] = @ + 1] ELSE bodies
    /\ copies' = [m \in Message |-> copies[m] + Count(m, batch[t])]
    /\ idle' = (op[t] = "heartbeat" /\ idle)
    /\ UNCHANGED <<buffered, channel, live, connected, header, published, ends>>

-----------------------------------------------------------------------------
(* offerToBuffered                                                         *)

\* Faulty: no bound.
FitsAlways(n) == TRUE

Fits(n) == Len(buffered) + n <= MaxPending

\* A queue's message and a heartbeat are not buffered.
Unbuffered(t) ==
    /\ At(t, "failed")
    /\ op[t] \in {"queue", "heartbeat"}
    /\ Fail(t, "dropped")
    /\ UNCHANGED <<page, wire, published, copies>>

NoRoom(t) ==
    /\ At(t, "failed")
    /\ op[t] \in {"topic", "listen"}
    /\ ~Fits(Len(batch[t]))
    /\ Fail(t, "dropped")
    /\ UNCHANGED <<page, wire, published, copies>>

FindRoom(t) ==
    /\ At(t, "failed")
    /\ op[t] \in {"topic", "listen"}
    /\ Fits(Len(batch[t]))
    /\ Move(t, "offer")

\* Faulty: a queue that takes null.
OfferAnything(t) ==
    /\ At(t, "offer")
    /\ batch[t] # << >>
    /\ buffered' = Append(buffered, Head(batch[t]))
    /\ batch' = [batch EXCEPT ![t] = Tail(@)]
    /\ UNCHANGED <<channel, idle, live, wire, op, pc, conn, src, target, room,
                   published, copies, ends>>

OfferItem(t) ==
    /\ At(t, "offer")
    /\ batch[t] # << >>
    /\ Head(batch[t]) # Null
    /\ buffered' = Append(buffered, Head(batch[t]))
    /\ batch' = [batch EXCEPT ![t] = Tail(@)]
    /\ UNCHANGED <<channel, idle, live, wire, op, pc, conn, src, target, room,
                   published, copies, ends>>

\* offer(null) throws, the rest of the array is dropped.
OfferNull(t) ==
    /\ At(t, "offer")
    /\ batch[t] # << >>
    /\ Head(batch[t]) = Null
    /\ lost' = lost \cup Messages(batch[t])
    /\ End(t)
    /\ UNCHANGED <<page, wire, published, copies, returned, missed, dropped>>

OfferDone(t) ==
    /\ At(t, "offer")
    /\ batch[t] = << >>
    /\ End(t)
    /\ UNCHANGED <<page, wire, published, copies, ends>>

-----------------------------------------------------------------------------
(* listen: ListenHandler.handle makes the channel writable, writes the     *)
(* header and registers the channel.  One thread controls a connection.  A *)
(* browser reuses a connection whose last response is complete, or opens   *)
(* another; a name in Channel is reused when nothing refers to it.         *)

Referenced(c) ==
    c = channel \/ \E t \in Thread : c \in {conn[t], src[t], target[t]}

Request(t, c) ==
    /\ live
    /\ IF connected[c] THEN ~CanWrite(c) ELSE ~Referenced(c)
    /\ \A u \in Thread : conn[u] # c
    /\ Begin(t, "listen", "header", << >>)
    /\ conn' = [conn EXCEPT ![t] = c]
    /\ connected' = [connected EXCEPT ![c] = TRUE]
    /\ writable' = [writable EXCEPT ![c] = TRUE]
    /\ header' = [header EXCEPT ![c] = FALSE]
    /\ bodies' = [bodies EXCEPT ![c] = 0]
    /\ UNCHANGED <<page, published, copies, ends>>

WriteHeader(t) ==
    /\ At(t, "header")
    /\ header' = [header EXCEPT ![conn[t]] = TRUE]
    /\ Goto(t, "enter")
    /\ UNCHANGED <<page, connected, writable, bodies, op, conn, src,
                   target, room, batch, published, copies, ends>>

RegisterChannel(t) ==
    /\ At(t, "enter")
    /\ idle' = FALSE
    /\ src' = [src EXCEPT ![t] = channel]
    /\ Goto(t, "swap")
    /\ UNCHANGED <<buffered, channel, live, wire, op, conn, target, room, batch,
                   published, copies, ends>>

\* Faulty: registerChannel does not look at the buffer.
SwapOnly(t) ==
    /\ At(t, "swap")
    /\ channel' = IF channel = src[t] THEN conn[t] ELSE channel
    /\ End(t)
    /\ UNCHANGED <<buffered, idle, live, wire, published, copies, ends>>

\* compareAndSet, whose result is ignored.
Swap(t) ==
    /\ At(t, "swap")
    /\ channel' = IF channel = src[t] THEN conn[t] ELSE channel
    /\ Goto(t, "drain")
    /\ UNCHANGED <<buffered, idle, live, wire, op, conn, src, target, room,
                   batch, published, copies, ends>>

NothingBuffered(t) ==
    /\ At(t, "drain")
    /\ buffered = << >>
    /\ End(t)
    /\ UNCHANGED <<page, wire, published, copies, ends>>

Measure(t) ==
    /\ At(t, "drain")
    /\ buffered # << >>
    /\ room' = [room EXCEPT ![t] = Len(buffered)]
    /\ Goto(t, "fill")
    /\ UNCHANGED <<page, wire, op, conn, src, target, batch, published, copies,
                   ends>>

\* Faulty: peek in the place of poll.
TailKept(s) == s

Head0(s) == IF s = << >> THEN Null ELSE Head(s)
Tail0(s) == IF s = << >> THEN s ELSE Tail(s)

PollItem(t) ==
    /\ At(t, "fill")
    /\ batch' = [batch EXCEPT ![t] = Append(@, Head0(buffered))]
    /\ buffered' = Tail0(buffered)
    /\ Goto(t, IF Len(batch[t]) + 1 < room[t] THEN "fill" ELSE "get")
    /\ UNCHANGED <<channel, idle, live, wire, op, conn, src, target, room,
                   published, copies, ends>>

-----------------------------------------------------------------------------
(* heartbeat and invalidate                                                *)

\* The timer comes minutes after the last access.  By then a browser whose
\* connection does not drop has long asked again, and waits for its response.
TimerDue ==
    /\ idle
    /\ \/ channel \in Transient
       \/ CanWrite(channel) /\ \A t \in Thread : op[t] # "listen"

\* The session timer.  A page left alone for HEARTBEAT_INTEVAL is idle.
Heartbeat(t) ==
    /\ live
    /\ TimerDue
    /\ Begin(t, "heartbeat", IF IsValid THEN "pulse" ELSE "close", <<HB>>)
    /\ UNCHANGED <<page, wire, conn, published, copies, ends>>

Pulse(t) ==
    /\ At(t, "pulse")
    /\ connected[channel]
    /\ target' = [target EXCEPT ![t] = channel]
    /\ Goto(t, "probe")
    /\ UNCHANGED <<page, wire, op, conn, src, room, batch, published, copies,
                   ends>>

NoPulse(t) ==
    /\ At(t, "pulse")
    /\ ~connected[channel]
    /\ End(t)
    /\ UNCHANGED <<page, wire, published, copies, ends>>

CloseCommand(t) ==
    /\ live
    /\ channel \in Transient
    /\ Begin(t, "close", "close", << >>)
    /\ UNCHANGED <<page, wire, conn, published, copies, ends>>

CloseChannel(t) ==
    /\ At(t, "close")
    /\ connected' = [connected EXCEPT ![channel] = FALSE]
    /\ Goto(t, "leave")
    /\ UNCHANGED <<page, writable, header, bodies, op, conn, src,
                   target, room, batch, published, copies, ends>>

\* Out of the session, out of the destinations.
Leave(t) ==
    /\ At(t, "leave")
    /\ live' = FALSE
    /\ Goto(t, "clear")
    /\ UNCHANGED <<buffered, channel, idle, wire, op, conn, src, target, room,
                   batch, published, copies, ends>>

\* buffered.clear polls until the queue is empty.
ClearItem(t) ==
    /\ At(t, "clear")
    /\ buffered # << >>
    /\ dropped' = dropped \cup {Head(buffered)}
    /\ buffered' = Tail(buffered)
    /\ UNCHANGED <<channel, idle, live, wire, local, published, copies,
                   returned, missed, lost>>

Cleared(t) ==
    /\ At(t, "clear")
    /\ buffered = << >>
    /\ Fail(t, "dropped")
    /\ UNCHANGED <<page, wire, published, copies>>

-----------------------------------------------------------------------------

Disconnect(c) ==
    /\ c \in Transient
    /\ connected[c]
    /\ connected' = [connected EXCEPT ![c] = FALSE]
    /\ UNCHANGED <<page, writable, header, bodies, local, published,
                   copies, ends>>

\* An operation takes far less than the idle time.
BecomeIdle ==
    /\ ~idle
    /\ \A t \in Thread : At(t, "idle")
    /\ idle' = TRUE
    /\ UNCHANGED <<buffered, channel, live, wire, local, published, copies,
                   ends>>

Receive(t) ==
    \/ GetChannel(t) \/ Valid(t) \/ Expired(t) \/ Online(t) \/ Offline(t)
    \/ ProbeFails(t) \/ ProbeSucceeds(t) \/ NothingToWrite(t)
    \/ ClaimFails(t) \/ Write(t)
    \/ Unbuffered(t) \/ NoRoom(t) \/ FindRoom(t)
    \/ OfferItem(t) \/ OfferNull(t) \/ OfferDone(t)

Listen(t) ==
    \/ WriteHeader(t) \/ RegisterChannel(t) \/ Swap(t)
    \/ NothingBuffered(t) \/ Measure(t) \/ PollItem(t)

Keep(t) ==
    \/ Pulse(t) \/ NoPulse(t)
    \/ CloseChannel(t) \/ Leave(t) \/ ClearItem(t) \/ Cleared(t)

Step(t) == Receive(t) \/ Listen(t) \/ Keep(t)

Start(t) ==
    \/ \E m \in Message, kind \in {"topic", "queue"} : Publish(t, m, kind)
    \/ \E c \in Channel : Request(t, c)
    \/ Heartbeat(t)
    \/ CloseCommand(t)

Next ==
    \/ \E t \in Thread : Step(t) \/ Start(t)
    \/ \E c \in Channel : Disconnect(c)
    \/ BecomeIdle

Spec == Init /\ [][Next]_vars

\* Threads finish what they have begun; on a connection that does not drop the
\* browser asks again when its last response is complete; the session timer
\* sends heartbeats.
Fairness ==
    /\ \A t \in Thread : WF_vars(Step(t))
    /\ \A c \in Channel \ Transient : SF_vars(\E t \in Thread : Request(t, c))
    /\ WF_vars(BecomeIdle)
    /\ SF_vars(\E t \in Thread : Heartbeat(t))

FairSpec == Spec /\ Fairness
=============================================================================
