------------------------------- MODULE Registry -------------------------------
(***************************************************************************)
(* How destinations are found, registered with and forgotten:              *)
(* DestinationHolderImpl, Destination, and the part of WebPage that keeps  *)
(* the page's destinations.                                                *)
(*                                                                         *)
(*   subscribe    find the domain, find the destination, registerPage      *)
(*   unsubscribe  find the domain, find the destination, unRegisterPage    *)
(*   publish      find the domain, find the destination                    *)
(*   invalidate   WebPage.invalidate: unRegisterPage of every destination  *)
(*   the timer    removes what two passes in a row found empty             *)
(*                                                                         *)
(* One domain and one name in it stand for all: a domain that was removed  *)
(* is made again as another object, and so is a destination.  Every access *)
(* to a shared map or to a plain field is a step.  What becomes of the     *)
(* messages is in Queue.tla.                                               *)
(***************************************************************************)
EXTENDS Naturals, Sequences, FiniteSets, SequencesExt

CONSTANTS
    Thread,         \* Netty workers, and the timers that invalidate pages
    Page,
    NoPage,         \* the page of an operation that has none
    MaxOps          \* bound on operations

ASSUME RegistryAssumption ==
    IsFiniteSet(Thread) /\ MaxOps \in Nat /\ NoPage \notin Page

None == 0

\* DomainHolders and Destinations, numbered as they are made: an operation
\* makes one of each at most
Object == 1..MaxOps
ObjectOrNone == 0..MaxOps

VARIABLES
    domain,         \* domainHolders: the domain's DomainHolder, or None
    holders,        \* number of DomainHolders made
    idle,           \* idle[h]: DomainHolder.critical
    entry,          \* entry[h]: the holder's destination of the name, or None
    made,           \* number of Destinations made
    home,           \* home[d]: the holder d was put into
    critical,       \* critical[d]: Destination.critical
    pages,          \* pages[d]: Destination.pages
    links,          \* links[p]: WebPage.destinations
    live,           \* live[p]: p is in its session
    op, pc, page,   \* what a thread does, its next step, and for which page
    holder, dest,   \* the holder and the destination it has found
    todo,           \* destinations an invalidation has yet to visit
    timer,          \* the timer: next step, holder, destination
    ops,            \* operations begun
    late,           \* history: destinations evicted in a registration
    lateHolders,    \* history: holders evicted in a lookup
    overlapped      \* history: pages that left in a registration

domains == <<domain, holders, idle, entry>>
destinations == <<made, home, critical, pages>>
webPages == <<links, live>>
control == <<op, pc, page>>
found == <<holder, dest, todo>>
history == <<late, lateHolders, overlapped>>
vars == <<domains, destinations, webPages, control, found, timer, ops, history>>

Ops == {"none", "publish", "subscribe", "unsubscribe", "invalidate"}
HolderInHand == {"touch", "name"}
DestInHand == {"reset", "put"}
Steps == {"idle", "domain", "link", "leave", "next", "unlink", "remove"}
            \cup HolderInHand \cup DestInHand

TimerSteps == {"asleep", "visit", "stillEmpty", "evict", "isEmpty", "mark",
               "isIdle", "holderStillEmpty", "evictHolder", "holderIsEmpty", "markHolder"}

TypeOK ==
    /\ domain \in ObjectOrNone /\ holders \in ObjectOrNone /\ made \in ObjectOrNone
    /\ idle \in [Object -> BOOLEAN] /\ entry \in [Object -> ObjectOrNone]
    /\ home \in [Object -> ObjectOrNone] /\ critical \in [Object -> BOOLEAN]
    /\ pages \in [Object -> SUBSET Page]
    /\ links \in [Page -> Seq(Object)] /\ live \in [Page -> BOOLEAN]
    /\ op \in [Thread -> Ops] /\ pc \in [Thread -> Steps]
    /\ page \in [Thread -> Page \cup {NoPage}]
    /\ holder \in [Thread -> ObjectOrNone] /\ dest \in [Thread -> ObjectOrNone]
    /\ todo \in [Thread -> Seq(Object)]
    /\ timer \in [at : TimerSteps, holder : ObjectOrNone, dest : ObjectOrNone]
    /\ ops \in ObjectOrNone
    /\ late \subseteq Object /\ lateHolders \subseteq Object /\ overlapped \subseteq Page

Asleep == [at |-> "asleep", holder |-> None, dest |-> None]

Init ==
    /\ domain = None /\ holders = 0 /\ made = 0 /\ ops = 0
    /\ idle = [h \in Object |-> FALSE] /\ entry = [h \in Object |-> None]
    /\ home = [d \in Object |-> None] /\ critical = [d \in Object |-> FALSE]
    /\ pages = [d \in Object |-> {}]
    /\ links = [p \in Page |-> << >>] /\ live = [p \in Page |-> TRUE]
    /\ op = [t \in Thread |-> "none"] /\ pc = [t \in Thread |-> "idle"]
    /\ page = [t \in Thread |-> NoPage]
    /\ holder = [t \in Thread |-> None] /\ dest = [t \in Thread |-> None]
    /\ todo = [t \in Thread |-> << >>]
    /\ timer = Asleep
    /\ late = {} /\ lateHolders = {} /\ overlapped = {}

-----------------------------------------------------------------------------
At(t, step) == pc[t] = step
Goto(t, step) == pc' = [pc EXCEPT ![t] = step]

Begin(t, what, p, step) ==
    /\ At(t, "idle") /\ ops < MaxOps /\ ops' = ops + 1
    /\ op' = [op EXCEPT ![t] = what]
    /\ page' = [page EXCEPT ![t] = p]
    /\ Goto(t, step)
    /\ UNCHANGED <<domains, destinations, webPages, found, timer, history>>

End(t) ==
    /\ op' = [op EXCEPT ![t] = "none"]
    /\ page' = [page EXCEPT ![t] = NoPage]
    /\ holder' = [holder EXCEPT ![t] = None]
    /\ dest' = [dest EXCEPT ![t] = None]
    /\ Goto(t, "idle")

\* A page is looked up in its session before a command or a request for it is
\* dealt with; the other end of a publish needs none
Publish(t) == Begin(t, "publish", NoPage, "domain")
Subscribe(t, p) == live[p] /\ Begin(t, "subscribe", p, "domain")
Unsubscribe(t, p) == live[p] /\ Begin(t, "unsubscribe", p, "domain")
Invalidate(t, p) == live[p] /\ Begin(t, "invalidate", p, "leave")

-----------------------------------------------------------------------------
(* getDomainHolder                                                         *)

HasHolder(t, h) ==
    /\ holder' = [holder EXCEPT ![t] = h]
    /\ Goto(t, "touch")
    /\ UNCHANGED <<destinations, webPages, op, page, dest, todo, timer, ops, history>>

GetDomain(t) ==
    /\ At(t, "domain") /\ domain # None
    /\ HasHolder(t, domain)
    /\ UNCHANGED domains

\* get, then putIfAbsent, which alone takes effect if get finds nothing
MakeDomain(t) ==
    /\ At(t, "domain") /\ domain = None
    /\ holders' = holders + 1 /\ domain' = holders'
    /\ HasHolder(t, holders')
    /\ UNCHANGED <<idle, entry>>

TouchDomain(t) ==
    /\ At(t, "touch")
    /\ idle' = [idle EXCEPT ![holder[t]] = FALSE]
    /\ Goto(t, "name")
    /\ UNCHANGED <<domain, holders, entry, destinations, webPages, op, page, found,
                   timer, ops, history>>

-----------------------------------------------------------------------------
(* getDestination, and on to registerPage, unRegisterPage or the messages  *)

HasDest(t, d) ==
    /\ dest' = [dest EXCEPT ![t] = d]
    /\ holder' = [holder EXCEPT ![t] = None]
    /\ Goto(t, CASE op[t] = "subscribe" -> "reset" [] op[t] = "unsubscribe" -> "unlink"
                 [] OTHER -> "next")
    /\ UNCHANGED <<webPages, op, page, todo, timer, ops, late, overlapped>>

GetDest(t) ==
    /\ At(t, "name") /\ entry[holder[t]] # None
    /\ HasDest(t, entry[holder[t]])
    /\ UNCHANGED <<domains, destinations, lateHolders>>

\* Faulty: a destination of each type is made.
MakeBoth(t) ==
    LET h == holder[t] IN
    /\ At(t, "name") /\ entry[h] = None
    /\ made' = made + 2
    /\ entry' = [entry EXCEPT ![h] = made']
    /\ HasDest(t, made')
    /\ UNCHANGED <<domain, holders, idle, home, critical, pages, lateHolders>>

\* the same, perhaps in a holder that the timer is about to remove
MakeDest(t) ==
    LET h == holder[t] IN
    /\ At(t, "name") /\ entry[h] = None
    /\ made' = made + 1
    /\ entry' = [entry EXCEPT ![h] = made']
    /\ home' = [home EXCEPT ![made'] = h]
    /\ HasDest(t, made')
    /\ lateHolders' = IF timer.at = "evictHolder" /\ timer.holder = h
                      THEN lateHolders \cup {h} ELSE lateHolders
    /\ UNCHANGED <<domain, holders, idle, critical, pages>>

\* the message goes to the destination that was found
Published(t) ==
    /\ At(t, "next") /\ op[t] = "publish"
    /\ End(t)
    /\ UNCHANGED <<domains, destinations, webPages, todo, timer, ops, history>>

-----------------------------------------------------------------------------
(* registerPage                                                            *)

Reset(t) ==
    /\ At(t, "reset")
    /\ critical' = [critical EXCEPT ![dest[t]] = FALSE]
    /\ Goto(t, "put")
    /\ UNCHANGED <<domains, made, home, pages, webPages, op, page, found, timer, ops, history>>

\* Faulty: the page is not told of its destination.
PutUntold(t) ==
    /\ At(t, "put") /\ page[t] \notin pages[dest[t]]
    /\ pages' = [pages EXCEPT ![dest[t]] = @ \cup {page[t]}]
    /\ End(t)
    /\ UNCHANGED <<domains, made, home, critical, webPages, todo, timer, ops, history>>

Put(t) ==
    LET d == dest[t] IN
    /\ At(t, "put") /\ page[t] \notin pages[d]
    /\ pages' = [pages EXCEPT ![d] = @ \cup {page[t]}]
    /\ late' = IF timer.at = "evict" /\ timer.dest = d THEN late \cup {d} ELSE late
    /\ Goto(t, "link")
    /\ UNCHANGED <<domains, made, home, critical, webPages, op, page, found, timer, ops,
                   lateHolders, overlapped>>

AlreadyPut(t) ==
    /\ At(t, "put") /\ page[t] \in pages[dest[t]]
    /\ End(t)
    /\ UNCHANGED <<domains, destinations, webPages, todo, timer, ops, history>>

Link(t) ==
    /\ At(t, "link")
    /\ links' = [links EXCEPT ![page[t]] = Append(@, dest[t])]
    /\ End(t)
    /\ UNCHANGED <<domains, destinations, live, todo, timer, ops, history>>

-----------------------------------------------------------------------------
(* unRegisterPage, and WebPage.invalidate                                  *)

\* a registration for p that may still put it or link it
Overlaps(p) ==
    \E t \in Thread : op[t] = "subscribe" /\ page[t] = p

Leave(t) ==
    LET p == page[t] IN
    /\ At(t, "leave")
    /\ live' = [live EXCEPT ![p] = FALSE]
    /\ todo' = [todo EXCEPT ![t] = links[p]]
    /\ overlapped' = IF Overlaps(p) THEN overlapped \cup {p} ELSE overlapped
    /\ Goto(t, "next")
    /\ UNCHANGED <<domains, destinations, links, op, page, holder, dest, timer, ops,
                   late, lateHolders>>

NextDest(t) ==
    /\ At(t, "next") /\ op[t] = "invalidate" /\ todo[t] # << >>
    /\ dest' = [dest EXCEPT ![t] = Head(todo[t])]
    /\ todo' = [todo EXCEPT ![t] = Tail(@)]
    /\ Goto(t, "unlink")
    /\ UNCHANGED <<domains, destinations, webPages, op, page, holder, timer, ops, history>>

\* destinations.clear
Invalidated(t) ==
    /\ At(t, "next") /\ op[t] = "invalidate" /\ todo[t] = << >>
    /\ links' = [links EXCEPT ![page[t]] = << >>]
    /\ End(t)
    /\ UNCHANGED <<domains, destinations, live, todo, timer, ops, history>>

Unlink(t) ==
    /\ At(t, "unlink")
    /\ links' = [links EXCEPT ![page[t]] = RemoveFirst(@, dest[t])]
    /\ Goto(t, "remove")
    /\ UNCHANGED <<domains, destinations, live, op, page, found, timer, ops, history>>

\* Faulty: unRegisterPage leaves the page in the map.
Stays(d, p) == pages[d]

Others(d, p) == pages[d] \ {p}

RemovePage(t) ==
    /\ At(t, "remove")
    /\ pages' = [pages EXCEPT ![dest[t]] = Others(dest[t], page[t])]
    /\ \/ op[t] = "invalidate" /\ Goto(t, "next") /\ UNCHANGED <<op, page, holder, dest>>
       \/ op[t] # "invalidate" /\ End(t)
    /\ UNCHANGED <<domains, made, home, critical, webPages, todo, timer, ops, history>>

-----------------------------------------------------------------------------
(* The timer: isValid of the destination, remove, isValid of the holder    *)

TimerGoes(step) ==
    /\ timer' = IF step = "asleep" THEN Asleep ELSE [timer EXCEPT !.at = step]
    /\ UNCHANGED <<webPages, control, found, ops, overlapped>>

Wake ==
    /\ timer.at = "asleep" /\ domain # None
    /\ timer' = [at |-> "visit", holder |-> domain, dest |-> None]
    /\ UNCHANGED <<domains, destinations, webPages, control, found, ops, history>>

\* Faulty: a destination found critical is not looked at again.
CriticalIsEnough(d) == IF critical[d] THEN "evict" ELSE "isEmpty"

IfCritical(d) == IF critical[d] THEN "stillEmpty" ELSE "isEmpty"

\* queueIt.next, topicIt.next, and the first half of isValid
Visit ==
    LET d == entry[timer.holder] IN
    /\ timer.at = "visit"
    /\ timer' = [timer EXCEPT !.at = IF d = None THEN "isIdle" ELSE IfCritical(d), !.dest = d]
    /\ UNCHANGED <<domains, destinations, webPages, control, found, ops, history>>

TestEmpty ==
    /\ timer.at \in {"stillEmpty", "isEmpty"}
    /\ TimerGoes(IF pages[timer.dest] # {}
                 THEN IF timer.at = "stillEmpty" THEN "isEmpty" ELSE "isIdle"
                 ELSE IF timer.at = "stillEmpty" THEN "evict" ELSE "mark")
    /\ UNCHANGED <<domains, destinations, late, lateHolders>>

Evict ==
    LET d == timer.dest IN
    /\ timer.at = "evict"
    /\ entry' = [entry EXCEPT ![timer.holder] = None]
    /\ late' = IF \E t \in Thread : dest[t] = d /\ pc[t] \in DestInHand
               THEN late \cup {d} ELSE late
    /\ TimerGoes("isIdle")
    /\ UNCHANGED <<domain, holders, idle, destinations, lateHolders>>

\* Faulty: the mark is not set.
Unmarked(d) == critical

Marked(d) == [critical EXCEPT ![d] = TRUE]

Mark ==
    /\ timer.at = "mark"
    /\ critical' = Marked(timer.dest)
    /\ TimerGoes("isIdle")
    /\ UNCHANGED <<domains, made, home, pages, late, lateHolders>>

TestIdle ==
    /\ timer.at = "isIdle"
    /\ TimerGoes(IF idle[timer.holder] THEN "holderStillEmpty" ELSE "holderIsEmpty")
    /\ UNCHANGED <<domains, destinations, late, lateHolders>>

TestHolderEmpty ==
    /\ timer.at \in {"holderStillEmpty", "holderIsEmpty"}
    /\ TimerGoes(IF entry[timer.holder] # None
                 THEN IF timer.at = "holderStillEmpty" THEN "holderIsEmpty" ELSE "asleep"
                 ELSE IF timer.at = "holderStillEmpty" THEN "evictHolder" ELSE "markHolder")
    /\ UNCHANGED <<domains, destinations, late, lateHolders>>

EvictHolder ==
    LET h == timer.holder IN
    /\ timer.at = "evictHolder"
    /\ domain' = None
    /\ lateHolders' = IF \E t \in Thread : holder[t] = h /\ pc[t] \in HolderInHand
                      THEN lateHolders \cup {h} ELSE lateHolders
    /\ TimerGoes("asleep")
    /\ UNCHANGED <<holders, idle, entry, destinations, late>>

MarkHolder ==
    /\ timer.at = "markHolder"
    /\ idle' = [idle EXCEPT ![timer.holder] = TRUE]
    /\ TimerGoes("asleep")
    /\ UNCHANGED <<domain, holders, entry, destinations, late, lateHolders>>

-----------------------------------------------------------------------------
Lookup(t) ==
    \/ GetDomain(t) \/ MakeDomain(t) \/ TouchDomain(t)
    \/ GetDest(t) \/ MakeDest(t) \/ Published(t)

Register(t) == Reset(t) \/ Put(t) \/ AlreadyPut(t) \/ Link(t)

UnRegister(t) ==
    Leave(t) \/ NextDest(t) \/ Invalidated(t) \/ Unlink(t) \/ RemovePage(t)

Step(t) == Lookup(t) \/ Register(t) \/ UnRegister(t)

Request(t) ==
    \/ Publish(t)
    \/ \E p \in Page : Subscribe(t, p) \/ Unsubscribe(t, p) \/ Invalidate(t, p)

Timer ==
    \/ Wake \/ Visit \/ TestEmpty \/ Evict \/ Mark
    \/ TestIdle \/ TestHolderEmpty \/ EvictHolder \/ MarkHolder

Next == Timer \/ \E t \in Thread : Step(t) \/ Request(t)

Spec == Init /\ [][Next]_vars

\* Threads finish what they have begun, and the timer runs for ever.
Fairness == WF_vars(Timer) /\ \A t \in Thread : WF_vars(Step(t))

FairSpec == Spec /\ Fairness

-----------------------------------------------------------------------------
\* The destination that subscribers and publishers find
Registered(d) == domain # None /\ entry[domain] = d

(***************************************************************************)
(* A destination that has pages is the one its publishers find, or it was  *)
(* evicted, it or its holder, in the very moment of a lookup: the timer    *)
(* had seen it empty and a thread had it in hand (isValid and registerPage *)
(* of Destination, getDomainHolder, the iterators' remove).                *)
(***************************************************************************)
NotDeaf ==
    \A d \in Object :
        pages[d] # {} => Registered(d) \/ d \in late \/ home[d] \in lateHolders

Linking(d, p) == \E t \in Thread : At(t, "link") /\ dest[t] = d /\ page[t] = p
Removing(d, p) == \E t \in Thread : At(t, "remove") /\ dest[t] = d /\ page[t] = p

(***************************************************************************)
(* A page that is in a destination has it among its own destinations, so   *)
(* that WebPage.invalidate finds it, through registrations and removals of *)
(* the same page that overtake each other; unless the page leaves in the   *)
(* middle of a registration (registerPage, unRegisterPage).                *)
(***************************************************************************)
Linked ==
    \A d \in Object : \A p \in pages[d] \ overlapped :
        d \in ToSet(links[p]) \/ Linking(d, p) \/ Removing(d, p)

Leaving(p) == \E t \in Thread : op[t] = "invalidate" /\ page[t] = p

(***************************************************************************)
(* A page that has left its session is in no destination, where it would   *)
(* keep the destination from ever being evicted; the exception is a page   *)
(* that left in the middle of a registration (WebPage.invalidate).         *)
(***************************************************************************)
NoGhost ==
    \A d \in Object : \A p \in pages[d] \ overlapped :
        live[p] \/ Leaving(p) \/ Removing(d, p)

(***************************************************************************)
(* When nothing more happens, a domain is forgotten unless a page is left  *)
(* in its destination (the timer of DestinationHolderImpl).                *)
(***************************************************************************)
Forgotten == <>[](domain # None => entry[domain] # None /\ pages[entry[domain]] # {})
=============================================================================
