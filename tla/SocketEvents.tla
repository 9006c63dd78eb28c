----------------------------- MODULE SocketEvents -----------------------------
(***************************************************************************)
(* addEventListener and its kin in web_socket.js, for one type of event.   *)
(* The connection calls the property on<type>, whatever it is;             *)
(* addEventListener puts a function there that dispatches to the           *)
(* listeners, but only the first time, and only over a handler.            *)
(***************************************************************************)
EXTENDS Naturals, Sequences, SequencesExt

CONSTANTS
    Listener,       \* functions given to addEventListener
    Handler,        \* functions assigned to on<type>
    Stopping,       \* listeners that call stopPropagation
    Preventing,     \* listeners that call preventDefault
    MaxAdds         \* bound on the calls of addEventListener

\* What the constants may be
SocketEventsAssumption ==
    /\ Stopping \subseteq Listener /\ Preventing \subseteq Listener /\ MaxAdds \in Nat
    /\ Listener \cap Handler = {} /\ {"none", "dispatcher"} \cap Handler = {}

VARIABLES
    on,             \* on<type>: a handler, "none", or the "dispatcher"
    listed,         \* TRUE: __events has this type
    list,           \* __events[type]
    default,        \* its defaultHandler, or "none"
    called          \* the functions the last event called, in order

eventsVars == <<on, listed, list, default, called>>

EventsTypeOK ==
    /\ on \in Handler \cup {"none", "dispatcher"} /\ default \in Handler \cup {"none"}
    /\ listed \in BOOLEAN /\ list \in Seq(Listener)
    /\ on = "dispatcher" => listed /\ default # "none"

EventsInit ==
    /\ on = "none" /\ listed = FALSE /\ list = << >> /\ default = "none"
    /\ called = << >>

\* the page assigns on<type>
Assign(h) ==
    /\ on' = h
    /\ UNCHANGED <<listed, list, default, called>>

AddEventListener(l) ==
    /\ Len(list) < MaxAdds
    /\ list' = Append(list, l) /\ listed' = TRUE
    /\ IF ~listed /\ on \in Handler
       THEN default' = on /\ on' = "dispatcher"
       ELSE UNCHANGED <<default, on>>
    /\ UNCHANGED called

\* its loop starts at this.__events.length, which is undefined, and never runs
RemoveEventListener == UNCHANGED eventsVars

\* cancelBubble: the listeners after one that calls stopPropagation do not run
Ran(listeners) ==
    LET stop == SelectInSeq(listeners, LAMBDA l : l \in Stopping)
    IN  IF stop = 0 THEN listeners ELSE SubSeq(listeners, 1, stop)

\* returnValue: one of them called preventDefault
IsPrevented(run) == ToSet(run) \cap Preventing # {}

\* Faulty: a dispatch that ignores preventDefault
FaultyDispatched(listeners) ==
    Ran(listeners) \o (IF default = "none" THEN << >> ELSE <<default>>)

\* Faulty: a listener that stops the event also keeps it from the handler
FaultyStopping(listeners) ==
    Ran(listeners) \o
        (IF default = "none" \/ IsPrevented(Ran(listeners)) \/ Ran(listeners) # listeners
         THEN << >> ELSE <<default>>)

\* dispatchEvent: up to the listener that stops it; then the default handler,
\* even so, unless it was prevented
Dispatched(listeners) ==
    Ran(listeners) \o
        (IF default = "none" \/ IsPrevented(Ran(listeners)) THEN << >> ELSE <<default>>)

\* an event: the connection calls on<type>
EventFires ==
    /\ called' = IF on = "none" THEN << >>
                 ELSE IF on = "dispatcher" THEN Dispatched(list)
                 ELSE <<on>>
    /\ UNCHANGED <<on, listed, list, default>>

\* the page calls dispatchEvent; without listeners of that type it throws
DispatchEvent ==
    /\ listed
    /\ called' = Dispatched(list)
    /\ UNCHANGED <<on, listed, list, default>>

EventsNext ==
    \/ \E h \in Handler \cup {"none"} : Assign(h)
    \/ \E l \in Listener : AddEventListener(l)
    \/ RemoveEventListener \/ EventFires \/ DispatchEvent

EventsSpec == EventsInit /\ [][EventsNext]_eventsVars

-----------------------------------------------------------------------------
(***************************************************************************)
(* Adding listeners never silences the handler: if there was one when the  *)
(* first listener was added, or there is one now, an event reaches one     *)
(* unless a listener that ran prevents it (addEventListener,               *)
(* __createEventHandler, dispatchEvent).                                   *)
(***************************************************************************)
Keeps ==
    EventFires /\ on # "none" =>
        \/ \E h \in Handler : Last(called') = h
        \/ ToSet(called') \cap Preventing # {}

(***************************************************************************)
(* A listener that prevents the default, and runs, keeps the handler from  *)
(* being called; one that only stops the event does not (dispatchEvent,    *)
(* preventDefault, stopPropagation).                                       *)
(***************************************************************************)
Prevents ==
    called' # called =>
        ~(ToSet(called') \cap Preventing # {} /\ ToSet(called') \cap Handler # {})

(***************************************************************************)
(* Added listeners do not silence a handler, and a prevented event does    *)
(* not reach it (__createEventHandler, dispatchEvent).                     *)
(***************************************************************************)
HandlerKept == [][Keeps /\ Prevents]_eventsVars
=============================================================================
