----------------------------- MODULE MCRegistry -----------------------------
(***************************************************************************)
(* The server's registries: Registry, and in behaviours of their own       *)
(* Sessions, with a publisher beside the timer, or with more requests.     *)
(* The variables of the other one rest.                                    *)
(***************************************************************************)
EXTENDS Registry, Sessions, TLC

VARIABLE setting

MoreRequests == INSTANCE Sessions WITH Publisher <- {}, Multiple <- 1, MaxAsks <- 3

BothInit ==
    \/ setting \in {"registry", "sessions"} /\ Init /\ SessionsInit
    \/ setting = "requests" /\ Init /\ MoreRequests!SessionsInit

BothNext ==
    \/ setting = "registry" /\ Next /\ UNCHANGED <<setting, sessionsVars>>
    \/ setting = "sessions" /\ SessionsNext /\ UNCHANGED <<setting, vars>>
    \/ setting = "requests" /\ MoreRequests!SessionsNext /\ UNCHANGED <<setting, vars>>

BothSpec == BothInit /\ [][BothNext]_<<setting, vars, sessionsVars>>

Symmetry == Permutations(Thread) \cup Permutations(Window)
=============================================================================
