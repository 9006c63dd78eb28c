------------------------------ MODULE BridgeIds ------------------------------
(***************************************************************************)
(* FABridge.js: how movies and the page's functions are found.  A movie    *)
(* that is ready calls FABridge__bridgeInitialized with its name; the      *)
(* script looks for it in the document and attaches a bridge to it, then   *)
(* runs the callbacks that wait for a bridge of that name.  A function     *)
(* given to Flash goes by a number made of its bridge's and its own, and   *)
(* one global function takes all the calls from Flash apart again.         *)
(***************************************************************************)
EXTENDS Naturals, Sequences, FiniteSets, FiniteSetsExt, SequencesExt, Functions

CONSTANTS
    Document,       \* the movies in their order: [tag |-> , name |-> ]
    Reports,        \* how often a movie may report itself
    Func,           \* functions of the page
    InitFunc,       \* callbacks given to addInitializationCallback
    Name,           \* names of movies
    Longer,         \* Longer[n]: the names that begin with n, n among them
    Width           \* functions a number has room for: 2^16 in the code

\* What the constants may be
BridgeIdsAssumption ==
    /\ Document \in Seq([tag : {"object", "embed"}, name : Name])
    /\ Longer \in [Name -> SUBSET Name] /\ \A n \in Name : n \in Longer[n]
    /\ Reports \in Nat /\ Width \in Nat \ {0}

NoBridge == 0
Nobody == "nobody"

VARIABLES
    active,         \* movies that are loaded: have SetVariable
    reports,        \* how often each has reported
    bridges,        \* the bridges, the one with bridgeID i at i + 1
    instances,      \* FABridge.instances: the last bridge of each name
    waiting,        \* FABridge.initCallbacks of each name
    asked,          \* callbacks that have been added, and for which name
    ran,            \* history: the callbacks that ran, in order
    reached         \* the function the last call from Flash reached

idsVars == <<active, reports, bridges, instances, waiting, asked, ran, reached>>

Movie == DOMAIN Document

IdsTypeOK ==
    /\ active \subseteq Movie /\ reports \in [Movie -> 0..Reports]
    /\ bridges \in Seq([target : Movie, name : Name, local : Seq(Func)])
    /\ \A b \in DOMAIN bridges : IsInjective(bridges[b].local)
    /\ instances \in [Name -> 0..Len(bridges)]
    /\ waiting \in [Name -> Seq(InitFunc)]
    /\ asked \subseteq InitFunc \X Name /\ ran \in Seq(InitFunc)
    /\ reached \in Func \cup {Nobody}

IdsInit ==
    /\ active = {} /\ reports = [i \in Movie |-> 0]
    /\ bridges = << >> /\ instances = [n \in Name |-> NoBridge]
    /\ waiting = [n \in Name |-> << >>] /\ asked = {} /\ ran = << >>
    /\ reached = Nobody

-----------------------------------------------------------------------------
\* Finding the movie

ActiveOf(tag) == {i \in active : Document[i].tag = tag}

\* Of several movies, those with "bridgeName=" and this name in their flashvars,
\* which a longer name does as well
Named(movies, n) ==
    IF Cardinality(movies) > 1 THEN {i \in movies : Document[i].name \in Longer[n]} ELSE {}

\* Faulty: the first movie there is
FaultyCandidates(n) == IF ActiveOf("object") # {} THEN ActiveOf("object") ELSE ActiveOf("embed")

(***************************************************************************)
(* The movies among which FABridge__bridgeInitialized takes the first: if  *)
(* there is one object, or one and its embed, or one embed, then that one  *)
(* whatever its name; otherwise the objects of that name, or the embeds.   *)
(***************************************************************************)
Candidates(n) ==
    LET objects == ActiveOf("object")
        embeds == ActiveOf("embed")
    IN  IF Cardinality(objects) = 1 /\ Cardinality(embeds) <= 1 THEN objects
        ELSE IF objects = {} /\ Cardinality(embeds) = 1 THEN embeds
        ELSE IF Named(objects, n) # {} THEN Named(objects, n)
        ELSE Named(embeds, n)

-----------------------------------------------------------------------------
\* The movie's player has loaded it
Load(i) ==
    /\ i \notin active /\ active' = active \cup {i}
    /\ UNCHANGED <<reports, bridges, instances, waiting, asked, ran, reached>>

\* Faulty: callbacks that stay in the list
FaultyAttachBridge(i, n) ==
    /\ bridges' = Append(bridges, [target |-> i, name |-> n, local |-> << >>])
    /\ instances' = [instances EXCEPT ![n] = Len(bridges) + 1]
    /\ ran' = ran \o waiting[n]
    /\ UNCHANGED waiting

\* a new bridge takes the place of the last one of that name
AttachBridge(i, n) ==
    /\ bridges' = Append(bridges, [target |-> i, name |-> n, local |-> << >>])
    /\ instances' = [instances EXCEPT ![n] = Len(bridges) + 1]
    /\ ran' = ran \o waiting[n]
    /\ waiting' = [waiting EXCEPT ![n] = << >>]

BridgeInitialized(i) ==
    LET n == Document[i].name IN
    /\ i \in active /\ reports[i] < Reports
    /\ reports' = [reports EXCEPT ![i] = @ + 1]
    /\ IF Candidates(n) # {} THEN AttachBridge(Min(Candidates(n)), n)
                             ELSE UNCHANGED <<bridges, instances, waiting, ran>>
    /\ UNCHANGED <<active, asked, reached>>

\* Faulty: a callback that is only kept
FaultyAddInitializationCallback(f, n) ==
    /\ \A c \in asked : c[1] # f
    /\ asked' = asked \cup {<<f, n>>}
    /\ waiting' = [waiting EXCEPT ![n] = Append(@, f)]
    /\ UNCHANGED <<active, reports, bridges, instances, ran, reached>>

\* runs at once if there is a bridge of that name
AddInitializationCallback(f, n) ==
    /\ \A c \in asked : c[1] # f
    /\ asked' = asked \cup {<<f, n>>}
    /\ IF instances[n] # NoBridge
       THEN ran' = Append(ran, f) /\ UNCHANGED waiting
       ELSE waiting' = [waiting EXCEPT ![n] = Append(@, f)] /\ UNCHANGED ran
    /\ UNCHANGED <<active, reports, bridges, instances, reached>>

-----------------------------------------------------------------------------
\* Numbers of functions

\* Faulty: bridges that all count from the same place
FaultyMakeID(b, token) == token

\* (bridgeID << 16) + token
MakeID(b, token) == (b - 1) * Width + token

\* id >> 16
ExtractBridge(id) == (id \div Width) + 1

Given == UNION {ToSet(bridges[b].local) : b \in DOMAIN bridges}

\* A function gets a number, once, from the bridge that is first to send it
GetFunctionID(b, f) ==
    /\ b \in DOMAIN bridges /\ f \notin Given
    /\ bridges' = [bridges EXCEPT ![b].local = Append(@, f)]
    /\ UNCHANGED <<active, reports, instances, waiting, asked, ran, reached>>

\* The number a function has; tokens count from 0
IdOf(f) ==
    LET b == CHOOSE c \in DOMAIN bridges : f \in ToSet(bridges[c].local)
    IN  MakeID(b, SelectInSeq(bridges[b].local, LAMBDA g : g = f) - 1)

\* localFunctionCache, keyed by the numbers this bridge has made
Found(b, id) ==
    IF \E t \in DOMAIN bridges[b].local : MakeID(b, t - 1) = id
    THEN bridges[b].local[CHOOSE t \in DOMAIN bridges[b].local : MakeID(b, t - 1) = id]
    ELSE Nobody

\* Flash calls the function of this number
InvokeLocalFunction(id) ==
    /\ reached' = IF ExtractBridge(id) \in DOMAIN bridges THEN Found(ExtractBridge(id), id) ELSE Nobody
    /\ UNCHANGED <<active, reports, bridges, instances, waiting, asked, ran>>

-----------------------------------------------------------------------------
IdsNext ==
    \/ \E i \in Movie : Load(i) \/ BridgeInitialized(i)
    \/ \E f \in InitFunc, n \in Name : AddInitializationCallback(f, n)
    \/ \E b \in DOMAIN bridges, f \in Func : GetFunctionID(b, f)
    \/ \E f \in Given : InvokeLocalFunction(IdOf(f))

IdsSpec == IdsInit /\ [][IdsNext]_idsVars

IdsFairness ==
    /\ \A i \in Movie : WF_idsVars(Load(i)) /\ WF_idsVars(reports[i] = 0 /\ BridgeInitialized(i))

IdsFairSpec == IdsSpec /\ IdsFairness

-----------------------------------------------------------------------------
(***************************************************************************)
(* Every callback runs once when there is a bridge of its name, whichever  *)
(* came first and however many bridges follow, and not before              *)
(* (addInitializationCallback, attachBridge).                              *)
(***************************************************************************)
CallbackOnce ==
    /\ IsInjective(ran)
    /\ \A c \in asked : c[1] \in ToSet(ran) <=> instances[c[2]] # NoBridge

\* Movie i bears the name n
Bears(i, n) == Document[i].name = n

\* Movie i has a longer name than n, and stands before a movie that bears n.
Mistakable(i, n) ==
    Document[i].name \in Longer[n] /\ \E j \in Movie : i < j /\ Bears(j, n)

TakenFor(i, n) == Bears(i, n) \/ Mistakable(i, n)

(***************************************************************************)
(* A bridge is attached to a movie that has its name, though movies load   *)
(* and report in any order, or to one that the script takes for it: a      *)
(* movie whose name begins with the bridge's, and only if it stands before *)
(* one of the right name (FABridge__bridgeInitialized, indexOf).           *)
(***************************************************************************)
RightMovie ==
    \A b \in DOMAIN bridges : TakenFor(bridges[b].target, bridges[b].name)

(***************************************************************************)
(* A bridge is attached to a movie of its name, but for one of a longer    *)
(* name that stands before it, and its callbacks run once then             *)
(* (FABridge__bridgeInitialized, attachBridge).                            *)
(***************************************************************************)
Attached == CallbackOnce /\ RightMovie

(***************************************************************************)
(* Callbacks are run, whenever they were added: every movie gets a bridge  *)
(* (FABridge__bridgeInitialized, attachBridge).                            *)
(***************************************************************************)
CallbacksRun ==
    \A f \in InitFunc, n \in Name :
        (<<f, n>> \in asked /\ \E i \in Movie : Document[i].name = n) ~> f \in Range(ran)

Reaches == \A f \in Given : InvokeLocalFunction(IdOf(f)) => reached' = f

(***************************************************************************)
(* A call from Flash reaches the function whose number was given away,     *)
(* through the one entry point of all bridges, as long as there are no     *)
(* more functions than a bridge has numbers for (makeID,                   *)
(* extractBridgeFromID, invokeLocalFunction): bridges are tracked "since   *)
(* callbacks from AS are global across the page".                          *)
(***************************************************************************)
CallReaches == [][Reaches]_idsVars
=============================================================================
