---------------------------- MODULE PointToPoint ----------------------------
(***************************************************************************)
(* What a queue destination promises the publishers of one queue: each     *)
(* message goes to at most one web page.  A published message is pending   *)
(* until it is delivered, refused because the queue is full, or lost; none *)
(* of the three is ever undone.  Queue.tla implements this specification.  *)
(***************************************************************************)

CONSTANT Message

VARIABLE status     \* status[m]: what has become of message m

Init == status = [m \in Message |-> "new"]

\* A publisher hands a message to the queue.
Publish(m) ==
    /\ status[m] = "new"
    /\ status' = [status EXCEPT ![m] = "pending"]

\* The pending messages S meet one common end.
Settle(S, end) ==
    /\ \A m \in S : status[m] = "pending"
    /\ status' = [m \in Message |-> IF m \in S THEN end ELSE status[m]]

\* One page is written the messages S.
Deliver(S) == Settle(S, "delivered")

\* The publisher is told that the queue is full.
Refuse(m) == Settle({m}, "refused")

\* The messages S disappear although nobody was told so.
Lose(S) == Settle(S, "lost")

Next ==
    \/ \E m \in Message : Publish(m) \/ Refuse(m)
    \/ \E S \in SUBSET Message : Deliver(S) \/ Lose(S)

Spec == Init /\ [][Next]_status
=============================================================================
