---------------------------- MODULE BridgeObjects ----------------------------
(***************************************************************************)
(* FABridge.js and the part of FABridge.as it depends on: the objects of   *)
(* Flash that the page has proxies of.  Flash sends the description of a   *)
(* type with the first object of that type and never again; the page       *)
(* builds proxies from the descriptions it has seen.  Flash keeps an       *)
(* object while it is counted, and frees it at zero.                       *)
(***************************************************************************)
EXTENDS Naturals, Sequences, FiniteSets, SequencesExt, Functions

CONSTANTS
    Object,         \* objects of Flash, events among them
    Event,          \* objects made for one event
    Type,           \* types of objects
    TypeOf,         \* the type of each object
    Listeners,      \* listeners the page adds for an event
    MaxRefs         \* bound on the references the page takes

None == "none"      \* no proxy
Bare == "bare"      \* a proxy without properties and methods

\* What the constants may be
BridgeObjectsAssumption ==
    /\ Event \subseteq Object /\ TypeOf \in [Object -> Type]
    /\ Listeners \in Nat \ {0} /\ MaxRefs \in Nat
    /\ {None, Bare} \cap Type = {}

VARIABLES
    described,      \* Flash: types it has sent the description of
    alive,          \* Flash: localInstanceMap
    refs,           \* Flash: refMap
    pending,        \* Flash: deferred calls of listeners
    sent,           \* Flash: events that have been dispatched
    known,          \* page: remoteTypeCache
    proxy,          \* page: remoteInstanceCache, the type of each proxy
    owned,          \* page: references it holds
    overtaken,      \* history: types whose description the page threw away, or
                    \* that something sent later has overtaken
    leaked          \* history: objects the page threw away and never knew of

inFlash == <<described, alive, refs, pending, sent>>
inPage == <<known, proxy, owned>>
thrown == <<overtaken, leaked>>
objectsVars == <<inFlash, inPage, thrown>>

ObjectsTypeOK ==
    /\ described \subseteq Type /\ alive \subseteq Object /\ sent \subseteq Event
    /\ refs \in [Object -> Nat] /\ owned \in [Object -> Nat]
    /\ known \subseteq described /\ proxy \in [Object -> Type \cup {None, Bare}]
    /\ pending \in Seq([obj : sent, types : SUBSET described])
    /\ overtaken \subseteq described /\ leaked \subseteq Object \ Event

ObjectsInit ==
    /\ described = {} /\ alive = {} /\ pending = << >> /\ sent = {}
    /\ refs = [o \in Object |-> 0]
    /\ known = {} /\ proxy = [o \in Object |-> None] /\ owned = [o \in Object |-> 0]
    /\ overtaken = {} /\ leaked = {}

-----------------------------------------------------------------------------
\* Flash packs an object: the description of its type, if it is the first

NewTypes(o) == {TypeOf[o]} \ described

Describe(o) == described' = described \cup {TypeOf[o]}

\* Descriptions on their way with these deferred calls
UnderWay(calls) == UNION {pending[i].types : i \in calls}

\* Faulty: each passage counts
FaultyKeepRefs(o) ==
    /\ alive' = alive \cup {o}
    /\ refs' = [refs EXCEPT ![o] = @ + 1]

\* An object that is not known yet is counted, once however often it is passed
KeepRefs(o) ==
    /\ alive' = alive \cup {o}
    /\ refs' = IF o \in alive THEN refs ELSE [refs EXCEPT ![o] = @ + 1]

\* releaseRef: at zero the object is freed
Released(o) ==
    /\ refs' = [refs EXCEPT ![o] = IF @ = 0 THEN 0 ELSE @ - 1]
    /\ alive' = IF refs[o] = 1 THEN alive \ {o} ELSE alive

\* Faulty: a proxy is made before the descriptions that came with it are read
FaultyUnpack(o, types) ==
    /\ known' = known \cup types
    /\ proxy' = [proxy EXCEPT ![o] = IF TypeOf[o] \in known THEN TypeOf[o] ELSE Bare]

\* The page unpacks it: addTypeDataToCache, then createProxy
Unpack(o, types) ==
    /\ known' = known \cup types
    /\ proxy' = [proxy EXCEPT ![o] = IF TypeOf[o] \in known' THEN TypeOf[o] ELSE Bare]

-----------------------------------------------------------------------------
\* a method or a getter returns an object
Return(o) ==
    /\ o \notin Event
    /\ Describe(o) /\ KeepRefs(o)
    /\ Unpack(o, NewTypes(o))
    /\ owned' = [owned EXCEPT ![o] = IF o \in alive THEN @ ELSE 1]
    /\ overtaken' = overtaken \cup UnderWay(DOMAIN pending)
    /\ UNCHANGED <<pending, sent, leaked>>

\* the same by way of call() or of a function's proxy, which do not unpack
ReturnDiscarded(o) ==
    /\ o \notin Event
    /\ Describe(o) /\ KeepRefs(o)
    /\ overtaken' = overtaken \cup NewTypes(o)
    /\ leaked' = leaked \cup ({o} \ alive)
    /\ UNCHANGED <<pending, sent, inPage>>

\* an event in EventsToCallLater: packed now for each listener, delivered by
\* a timeout
Dispatch(o) ==
    /\ o \in Event \ sent /\ sent' = sent \cup {o}
    /\ Describe(o) /\ KeepRefs(o)
    /\ pending' = Append(pending, [obj |-> o, types |-> NewTypes(o)])
                    \o [i \in 1..(Listeners - 1) |-> [obj |-> o, types |-> {}]]
    /\ UNCHANGED <<inPage, thrown>>

\* Faulty: an addRef that does not reach Flash
FaultyDeliver(i, keep) ==
    LET o == pending[i].obj IN
    /\ pending' = RemoveAt(pending, i)
    /\ overtaken' = overtaken \cup UnderWay(1..(i - 1))
    /\ Unpack(o, pending[i].types)
    /\ owned' = [owned EXCEPT ![o] = IF keep THEN @ + 1 ELSE @]
    /\ Released(o)
    /\ UNCHANGED <<described, sent, leaked>>

(***************************************************************************)
(* The timeout of one listener: FABridge__invokeJSFunction unpacks the     *)
(* event and calls the listener, who may call addRef to keep it (keep);    *)
(* then Flash releases what was passed.                                    *)
(***************************************************************************)
Deliver(i, keep) ==
    LET o == pending[i].obj IN
    /\ pending' = RemoveAt(pending, i)
    /\ overtaken' = overtaken \cup UnderWay(1..(i - 1))
    /\ Unpack(o, pending[i].types)
    /\ IF keep
       THEN /\ owned[o] < MaxRefs /\ owned' = [owned EXCEPT ![o] = @ + 1]
            /\ UNCHANGED <<refs, alive>>
       ELSE UNCHANGED owned /\ Released(o)
    /\ UNCHANGED <<described, sent, leaked>>

AddRef(o) ==
    /\ proxy[o] # None /\ owned[o] \in 1..(MaxRefs - 1)
    /\ refs' = [refs EXCEPT ![o] = @ + 1] /\ owned' = [owned EXCEPT ![o] = @ + 1]
    /\ UNCHANGED <<described, alive, pending, sent, known, proxy, thrown>>

Release(o) ==
    /\ owned[o] > 0 /\ owned' = [owned EXCEPT ![o] = @ - 1]
    /\ Released(o)
    /\ UNCHANGED <<described, pending, sent, known, proxy, thrown>>

\* a getter or a method of a proxy: Flash counts the object while it is used,
\* and so frees one that is not counted
Use(o) ==
    /\ proxy[o] \in Type
    /\ alive' = IF refs[o] = 0 THEN alive \ {o} ELSE alive
    /\ UNCHANGED <<described, refs, pending, sent, inPage, thrown>>

ObjectsNext ==
    \/ \E o \in Object :
          Return(o) \/ ReturnDiscarded(o) \/ Dispatch(o) \/ AddRef(o) \/ Release(o) \/ Use(o)
    \/ \E i \in DOMAIN pending, keep \in BOOLEAN : Deliver(i, keep)

ObjectsSpec == ObjectsInit /\ [][ObjectsNext]_objectsVars

-----------------------------------------------------------------------------
(***************************************************************************)
(* Every proxy has the properties and methods of its type, unless the      *)
(* description of the type was thrown away or overtaken: "create an AS     *)
(* proxy for the given object ID and type" (addTypeDataToCache,            *)
(* createProxy; serialize of FABridge.as, which describes a type once).    *)
(***************************************************************************)
Typed == \A o \in Object : proxy[o] = Bare => TypeOf[o] \in overtaken

Referred(o) == owned[o] > 0 \/ \E i \in DOMAIN pending : pending[i].obj = o

(***************************************************************************)
(* What is still to be delivered, or the page holds a reference of, has    *)
(* not been freed (incRef and releaseRef around every passage and use).    *)
(***************************************************************************)
InUse == \A o \in Object : Referred(o) => o \in alive

(***************************************************************************)
(* What nobody refers to is freed, unless the page never knew of it: the   *)
(* counts are exactly the page's references and the deliveries to come     *)
(* (keep_refs, releaseRef).                                                *)
(***************************************************************************)
NoLeak == \A o \in Object : o \in alive => Referred(o) \/ o \in leaked

(***************************************************************************)
(* A proxy has the methods of its type, what is used or still to be        *)
(* delivered is not freed, and what nobody refers to is (serialize,        *)
(* incRef, releaseRef).                                                    *)
(***************************************************************************)
ObjectsKept == Typed /\ InUse /\ NoLeak
=============================================================================
