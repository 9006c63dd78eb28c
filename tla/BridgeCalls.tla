----------------------------- MODULE BridgeCalls -----------------------------
(***************************************************************************)
(* FABridge.js: which of the calls between the page and its Flash movies   *)
(* are under way.  The Flash player must not be called while it is in a    *)
(* call, so the bridge counts its calls in FABridge.refCount, one count    *)
(* for all movies of the page, and refuses a second one.                   *)
(*                                                                         *)
(* The stack of the page's thread is a sequence of frames: a "counted"     *)
(* call (get, set, method, function), an "uncounted" one (root, create,    *)
(* addRef, release...), or a "handler", a function that Flash has called.  *)
(***************************************************************************)
EXTENDS Integers, Sequences, FiniteSets, SequencesExt

CONSTANTS
    Bridge,         \* the movies
    Removable,      \* those that may leave the document
    RootFails,      \* TRUE: root and create may answer with an error
    MaxDepth        \* bound on the stack

\* What the constants may be
BridgeCallsAssumption ==
    /\ Removable \subseteq Bridge /\ RootFails \in BOOLEAN
    /\ MaxDepth \in Nat \ {0}

VARIABLES
    stack,          \* frames of the thread, each with its bridge
    refCount,       \* FABridge.refCount
    gone            \* movies that have left the document

callsVars == <<stack, refCount, gone>>

Frame == [kind : {"counted", "uncounted", "handler"}, bridge : Bridge]

CallsTypeOK ==
    /\ stack \in Seq(Frame) /\ gone \subseteq Removable
    /\ refCount \in IF RootFails THEN Int ELSE Nat

CallsInit == stack = << >> /\ refCount = 0 /\ gone = {}

\* It is the script, or Flash, that runs
InScript == stack # << >> => Last(stack).kind = "handler"
InFlash == ~InScript

\* The counted calls under way, by their places on the stack
CallsUnderWay == {i \in DOMAIN stack : stack[i].kind = "counted"}

Push(kind, b) == Len(stack) < MaxDepth /\ stack' = Append(stack, [kind |-> kind, bridge |-> b])
Pop == stack' = Front(stack)

Refuses == refCount > 0

\* Faulty: a call that does not look at the count
FaultyCallFlash(b) ==
    /\ InScript
    /\ refCount' = refCount + 1
    /\ IF b \in gone THEN UNCHANGED stack ELSE Push("counted", b)
    /\ UNCHANGED gone

\* Faulty: a call that forgets to count
FaultyCount(b) ==
    /\ InScript /\ ~Refuses
    /\ Push("counted", b)
    /\ UNCHANGED <<refCount, gone>>

\* getPropertyFromAS and its kin.  The call of a movie that is gone throws,
\* and the count stays up.
CallFlash(b) ==
    /\ InScript /\ ~Refuses
    /\ refCount' = refCount + 1
    /\ IF b \in gone THEN UNCHANGED stack ELSE Push("counted", b)
    /\ UNCHANGED gone

\* root, create, releaseASObjects, addRef, release: nothing is counted
CallUncounted(b) ==
    /\ InScript /\ b \notin gone
    /\ Push("uncounted", b)
    /\ UNCHANGED <<refCount, gone>>

FlashReturns ==
    /\ InFlash /\ Pop
    /\ refCount' = IF Last(stack).kind = "counted" THEN refCount - 1 ELSE refCount
    /\ UNCHANGED gone

\* Faulty: handleError that only throws
FaultyHandleError ==
    /\ InFlash /\ Pop
    /\ Last(stack).kind = "counted" \/ RootFails
    /\ UNCHANGED <<refCount, gone>>

\* Flash answers with the text of an error: handleError, which throws, is on
\* the way of both kinds of calls, and uncounts one if any is counted
HandleError ==
    /\ InFlash /\ Pop
    /\ Last(stack).kind = "counted" \/ RootFails
    /\ refCount' = IF Refuses THEN refCount - 1 ELSE refCount
    /\ UNCHANGED gone

\* Flash calls a function of the page in the midst of a call, or, for the
\* events in EventsToCallLater, when the thread is free
InvokeJSFunction(b) ==
    /\ b \notin gone
    /\ stack = << >> \/ InFlash
    /\ Push("handler", b)
    /\ UNCHANGED <<refCount, gone>>

\* the function returns or throws
HandlerReturns ==
    /\ stack # << >> /\ InScript
    /\ Pop
    /\ UNCHANGED <<refCount, gone>>

\* a script removes a movie that is not in a call
RemoveMovie(b) ==
    /\ b \in Removable \ gone /\ InScript
    /\ \A i \in DOMAIN stack : stack[i].bridge # b
    /\ gone' = gone \cup {b}
    /\ UNCHANGED <<stack, refCount>>

CallsNext ==
    \/ \E b \in Bridge :
          CallFlash(b) \/ CallUncounted(b) \/ InvokeJSFunction(b) \/ RemoveMovie(b)
    \/ FlashReturns \/ HandleError \/ HandlerReturns

CallsSpec == CallsInit /\ [][CallsNext]_callsVars

-----------------------------------------------------------------------------
(***************************************************************************)
(* No counted call is made from within another, through any number of      *)
(* callbacks and over all bridges; and as long as no movie has left the    *)
(* page the count is that of the calls under way, whatever way they ended, *)
(* so that a call is refused, with "You are trying to call recursively     *)
(* into the Flash Player", only if it would be one (refCount and its       *)
(* guards, handleError).                                                   *)
(***************************************************************************)
NoRecursion ==
    /\ Cardinality(CallsUnderWay) <= 1
    /\ gone = {} => refCount = Cardinality(CallsUnderWay)
=============================================================================
