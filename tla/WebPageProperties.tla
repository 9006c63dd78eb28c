------------------------- MODULE WebPageProperties -------------------------
(***************************************************************************)
(* What a web page guarantees, and what the comments in WebPage.java and   *)
(* ListenHandler.java say of it.                                           *)
(***************************************************************************)
EXTENDS WebPage

\* A message for this page is written to at most one of its channels, once,
\* though a batch may be buffered, drained and buffered again.
AtMostOnce == \A m \in Message : copies[m] <= 1

Carried  == UNION {Messages(batch[t]) : t \in Thread}
Buffered == Messages(buffered)
Written  == {m \in Message : copies[m] > 0}
Settled  == Written \cup returned \cup missed \cup dropped \cup lost

\* Every message is in a thread's hands, in the buffer, or has met one end.
Located ==
    /\ published = Carried \cup Buffered \cup Settled
    /\ (Carried \cup Buffered) \cap Settled = {}
    /\ Carried \cap Buffered = {}

\* No message for the page is doubled or mislaid, through failed writes, drains
\* by two threads and buffering (messageReceived, registerChannel).
Accounted == AtMostOnce /\ Located

\* offerToBuffered tests the size before it offers a whole array: threads that
\* pass the test together exceed the bound, by a full buffer each at most.
OvershootBound == Len(buffered) <= Cardinality(Thread) * MaxPending

\* A long poll gets one body, though publishers, drains and the heartbeat timer
\* find its channel writable at the same time.
OneBodyPerRequest == LongPolling => \A c \in Channel : bodies[c] <= 1

\* A message for a page that keeps polling does not stay in the page's buffer:
\* one that a drain came too early for goes out after the heartbeat.
EventuallySettled ==
    \A m \in Message : (m \in published) ~> (m \in Settled)

-----------------------------------------------------------------------------
(* What the comments say.                                                  *)

\* "this may not be thread safe, but later the elements of commands are tested
\* for null" (WebPage.java:75): a null in a drained array costs no message.
NullChecked == lost = {}

\* "first write out the http header" (ListenHandler.java:286): no body precedes
\* the header of its response.
HeaderFirst == \A c \in Channel : bodies[c] > 0 => header[c]
=============================================================================
