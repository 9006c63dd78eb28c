------------------------------ MODULE SocketLife ------------------------------
(***************************************************************************)
(* What a page may rely on of a WebSocket: its readyState only moves on,   *)
(* and the messages it hears are some of those sent, in their order.       *)
(***************************************************************************)
EXTENDS Naturals, Sequences, SequencesExt

CONSTANT Socket

VARIABLES
    ready,      \* readyState of each socket, 0 to 3
    heard       \* the messages onmessage was called with, by number

lifeVars == <<ready, heard>>

Init ==
    /\ ready = [s \in Socket |-> 0]
    /\ heard = [s \in Socket |-> << >>]

MoveOn ==
    /\ ready' \in [Socket -> 0..3]
    /\ \A s \in Socket : ready[s] <= ready'[s]

Hear ==
    \A s \in Socket :
        /\ IsPrefix(heard[s], heard'[s])
        /\ \A i, j \in DOMAIN heard'[s] : i < j => heard'[s][i] < heard'[s][j]

Spec == Init /\ [][MoveOn /\ Hear]_lifeVars
=============================================================================
