-------------------------- MODULE QueueProperties --------------------------
(***************************************************************************)
(* What a correct queue guarantees, and the inductive invariant its proofs *)
(* use.                                                                    *)
(***************************************************************************)
EXTENDS Queue

\* No message is written twice, whatever publishers, drains and re-offers do
\* to the queue at the same time: a point-to-point destination.
AtMostOnce == \A m \in Message : copies[m] <= 1

\* The messages on their way, and those whose story has ended.
Carried == {msg[t] : t \in Thread} \ {Null}
Queued  == Messages(buffered)
Drained == UNION {Messages(batch[t]) : t \in Thread}
Written == {m \in Message : copies[m] > 0}
Pending == Carried \cup Queued \cup Drained
Settled == Written \cup refused \cup lost

\* No published message drops out between two steps: it is with its publisher,
\* in the queue, in the array of a drain, or it has met one end.
Accounted ==
    /\ published = Pending \cup Settled
    /\ Pending \cap Settled = {}

\* storeItem tests the size in one step and offers in another, so publishers
\* together exceed the bound; but by one message each at most, as long as no
\* declined batch went back past the test.
OvershootBound ==
    ~reoffered => Len(buffered) <= MaxPending + Cardinality(Thread)

\* Where one thread serves all subscriptions and polls no drain is overtaken,
\* its array has no null, and a declined batch comes back whole.
NothingLost == Cardinality(Listeners) <= 1 => lost = {}

\* A published message does not stay in the queue for ever once a page keeps
\* polling: a drain that comes too early or too late is made good by a later
\* one, at the latest by the poll that follows the heartbeat.
EventuallySettled ==
    \A m \in Message : (m \in published) ~> (m \in Settled)

\* The queue keeps the promise of PointToPoint.
Status(m) ==
    CASE m \notin published -> "new"
      [] m \in refused -> "refused"
      [] m \in lost -> "lost"
      [] copies[m] > 1 -> "duplicated"
      [] copies[m] = 1 -> "delivered"
      [] OTHER -> "pending"

Promise == INSTANCE PointToPoint WITH status <- [m \in Message |-> Status(m)]

\* Each step of the queue is a step of the promise, or changes no status.
KeepsPromise == Promise!Spec

-----------------------------------------------------------------------------
(* The inductive invariant.                                                *)

InPublish == {"check", "iterate", "size", "offer"}
InDrain   == {"fill", "hand", "reoffer"}
InExpiry  == {"close", "leave", "unlink", "remove"}
OnPage    == InDrain \cup InExpiry \cup {"connect", "drain", "put", "link"}

\* Where a thread is determines what it carries: a publisher its message, a
\* drain a round to end, a removal an entry to count off.
Controlled(t) ==
    /\ pc[t] = "idle" <=> op[t] = "none"
    /\ msg[t] # Null <=> op[t] = "publish"
    /\ pc[t] \in InPublish => op[t] = "publish"
    /\ pc[t] \in {"put", "link"} => op[t] = "subscribe"
    /\ pc[t] = "connect" => op[t] = "poll"
    /\ pc[t] = "drain" => op[t] \in {"subscribe", "poll"}
    /\ pc[t] \in InDrain => op[t] \in {"subscribe", "poll"} /\ rounds[t] > 0
    /\ pc[t] \in InExpiry /\ op[t] \in {"subscribe", "poll"} => rounds[t] > 0
    /\ pc[t] = "remove" => entries[t] > 0
    /\ pc[t] \in OnPage => page[t] \in Page

Control == \A t \in Thread : Controlled(t)

\* A message is in one place only, and once.
BufferedOnce ==
    \A i, j \in DOMAIN buffered : buffered[i] = buffered[j] => i = j

CarriedOnce ==
    \A t, u \in Thread : msg[t] = msg[u] /\ msg[t] # Null => t = u

DrainedOnce ==
    \A t, u \in Thread : \A i \in DOMAIN batch[t], j \in DOMAIN batch[u] :
        batch[t][i] = batch[u][j] /\ batch[t][i] # Null => t = u /\ i = j

Apart ==
    /\ Carried \cap Queued = {}
    /\ Carried \cap Drained = {}
    /\ Queued \cap Drained = {}

Ledger ==
    /\ BufferedOnce /\ CarriedOnce /\ DrainedOnce
    /\ Apart
    /\ Accounted
    /\ AtMostOnce

IInv == TypeOK /\ Control /\ Ledger

\* The publishers past the test of storeItem bring the queue to its highest.
Offering == {t \in Thread : pc[t] = "offer"}

Crowd ==
    ~reoffered => Len(buffered) + Cardinality(Offering)
                    <= MaxPending + Cardinality(Thread)

\* Only a listener's thread drains, and its array is empty between two drains.
DrainsHere ==
    \A t \in Thread :
        /\ op[t] \in {"subscribe", "poll"} => t \in Listeners
        /\ batch[t] # << >> => /\ op[t] \in {"subscribe", "poll"}
                               /\ pc[t] \in InDrain \cup InExpiry

\* Where nobody else drains, the queue can fill the rest of the array.
Filling(t) ==
    pc[t] = "fill" => /\ Len(batch[t]) < room[t]
                      /\ room[t] - Len(batch[t]) <= Len(buffered)

NoNull(t) == \A i \in DOMAIN batch[t] : batch[t][i] # Null

OneListener == \A t, u \in Listeners : t = u

Alone ==
    /\ DrainsHere
    /\ OneListener => lost = {} /\ \A t \in Thread : Filling(t) /\ NoNull(t)
=============================================================================
