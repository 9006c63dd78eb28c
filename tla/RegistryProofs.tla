--------------------------- MODULE RegistryProofs ---------------------------
(***************************************************************************)
(* Why the registry keeps its types, why a destination with pages is found *)
(* or was evicted in the middle of a lookup, and why a page that leaves    *)
(* leaves its destinations too, unless a registration of it overlaps.      *)
(***************************************************************************)
EXTENDS Registry, FiniteSetTheorems, SequenceTheorems,
        WellFoundedInduction, TLAPS

(***************************************************************************)
(* The inductive invariant.  What a thread has in hand at each step:       *)
(***************************************************************************)
Looking == {"domain"} \cup HolderInHand
InDestination == {"reset", "put", "link", "unlink", "remove"}

ThreadOK(t) ==
    /\ pc[t] = "idle" => op[t] = "none"
    /\ pc[t] \in Looking => op[t] \in {"publish", "subscribe", "unsubscribe"}
    /\ pc[t] \in {"reset", "put", "link"} => op[t] = "subscribe"
    /\ pc[t] \in {"unlink", "remove"} => op[t] \in {"unsubscribe", "invalidate"}
    /\ pc[t] = "leave" => op[t] = "invalidate"
    /\ op[t] \in {"subscribe", "unsubscribe", "invalidate"} => page[t] \in Page
    /\ pc[t] \in HolderInHand => holder[t] \in Object
    /\ pc[t] \in InDestination => dest[t] \in Object

Control == \A t \in Thread : ThreadOK(t)

\* what the timer has in hand
AtDestination == {"stillEmpty", "isEmpty", "evict", "mark"}

TimerOK ==
    /\ timer.at # "asleep" => timer.holder = domain /\ domain # None
    /\ timer.at \in AtDestination =>
          timer.dest = entry[timer.holder] /\ timer.dest # None

\* Each operation still to find its domain, or its destination, may make one
Asking == {t \in Thread : pc[t] = "domain"}
Naming == {t \in Thread : pc[t] \in Looking}

Counted ==
    /\ holders + Cardinality(Asking) <= ops
    /\ made + Cardinality(Naming) <= ops

Typed == TypeOK /\ Control /\ TimerOK /\ Counted

\* A destination that can be found in the holder it was put into
Kept(d) == home[d] \in Object /\ entry[home[d]] = d

\* Destinations stay where they were put, in the domain's holder, until the
\* timer sees them empty; after that only a thread that came too late uses them
Registers ==
    /\ \A h \in Object : entry[h] # None => home[entry[h]] = h /\ entry[h] <= made
    /\ \A d \in Object : pages[d] # {} => Kept(d) \/ d \in late
    /\ \A t \in Thread : pc[t] \in DestInHand => Kept(dest[t]) \/ dest[t] \in late
    /\ timer.at = "evict" /\ pages[timer.dest] # {} => timer.dest \in late

Domains ==
    /\ \A h \in Object : entry[h] # None => h = domain \/ h \in lateHolders
    /\ \A t \in Thread :
          pc[t] \in HolderInHand => holder[t] = domain \/ holder[t] \in lateHolders
    /\ timer.at = "evictHolder" /\ entry[timer.holder] # None =>
          timer.holder \in lateHolders

\* A page whose registration is under way is in its session, or its leaving
\* is remembered
Invited ==
    \A t \in Thread :
        op[t] = "subscribe" => live[page[t]] \/ page[t] \in overlapped

\* An invalidation has yet to visit the destinations its page is in
Visiting(t) == op[t] = "invalidate" /\ pc[t] # "leave"

ToVisit(t, d) ==
    \/ d \in ToSet(todo[t])
    \/ pc[t] = "unlink" /\ dest[t] = d
    \/ Removing(d, page[t])

Visits ==
    \A t \in Thread : Visiting(t) =>
        /\ ~ live[page[t]]
        /\ \A d \in Object : page[t] \in pages[d] \ overlapped => ToVisit(t, d)

Pages == Invited /\ Visits /\ Linked /\ NoGhost

Inv == Typed /\ Registers /\ Domains /\ Pages

-----------------------------------------------------------------------------
\* A set of numbers has a least one, which Min chooses.
LEMMA LeastIsIn ==
    ASSUME NEW I \in SUBSET Nat, I # {}
    PROVE  Min(I) \in I
<1>1. \E x \in I : \A y \in I : ~ (<<y, x>> \in OpToRel(<, Nat))
    BY NatLessThanWellFounded, WFMin, Zenon
<1>2. PICK x \in I : \A y \in I : ~ (<<y, x>> \in OpToRel(<, Nat))
    BY <1>1
<1>3. ASSUME NEW y \in I
     PROVE  x =< y
  <2>1. <<y, x>> \in Nat \X Nat /\ <<y, x>>[1] = y /\ <<y, x>>[2] = x
      OBVIOUS
  <2>2. y < x => <<y, x>> \in OpToRel(<, Nat)
      BY <2>1, Zenon DEF OpToRel
  <2>3. ~ (y < x)
      BY <1>2, <2>2, Zenon
  <2>4. x \in Nat /\ y \in Nat
      OBVIOUS
  <2> QED
      BY ONLY <2>3, <2>4
<1> QED
    BY <1>3 DEF Min

\* RemoveFirst takes nothing out but the element.
LEMMA RemoveFirstKeeps ==
    ASSUME NEW S, NEW s \in Seq(S), NEW e
    PROVE  /\ RemoveFirst(s, e) \in Seq(S)
           /\ \A x \in ToSet(s) : x # e => x \in ToSet(RemoveFirst(s, e))
<1>1. CASE \E i \in 1 .. Len(s) : s[i] = e
  <2> DEFINE I == {i \in 1 .. Len(s) : s[i] = e}
             k == Min(I)
             a == SubSeq(s, 1, k - 1)
             b == SubSeq(s, k + 1, Len(s))
  <2>1. k \in I
    <3>1. I # {} /\ I \in SUBSET Nat
        BY <1>1
    <3> QED
        BY ONLY <3>1, LeastIsIn
  <2>2. SelectInSeq(s, LAMBDA v : v = e) = k
      BY <1>1 DEF SelectInSeq
  <2>3. RemoveFirst(s, e) = a \o b
      BY <1>1, <2>2 DEF RemoveFirst, RemoveAt
  <2> HIDE DEF k
  <2>4. k \in 1 .. Len(s) /\ s[k] = e
      BY <2>1
  <2>5. /\ a \in Seq(S) /\ Len(a) = k - 1
        /\ \A i \in 1 .. k - 1 : a[i] = s[i]
      BY <2>4, SubSeqProperties
  <2>6. /\ b \in Seq(S) /\ Len(b) = Len(s) - k
        /\ \A i \in 1 .. Len(s) - k : b[i] = s[k + i]
      BY <2>4, SubSeqProperties
  <2> HIDE DEF a, b
  <2>7. /\ a \o b \in Seq(S) /\ Len(a \o b) = Len(s) - 1
        /\ \A i \in 1 .. Len(s) - 1 : (a \o b)[i] = IF i < k THEN s[i] ELSE s[i + 1]
    <3>1. /\ a \o b \in Seq(S) /\ Len(a \o b) = Len(a) + Len(b)
          /\ \A i \in 1 .. Len(a) + Len(b) :
                (a \o b)[i] = IF i <= Len(a) THEN a[i] ELSE b[i - Len(a)]
        BY <2>5, <2>6, ConcatProperties
    <3>2. Len(s) \in Nat
        OBVIOUS
    <3>3. Len(a \o b) = Len(s) - 1
        BY ONLY <3>1, <3>2, <2>4, <2>5, <2>6
    <3>4. ASSUME NEW i \in 1 .. Len(s) - 1
          PROVE  (a \o b)[i] = IF i < k THEN s[i] ELSE s[i + 1]
      <4>1. (a \o b)[i] = IF i <= k - 1 THEN a[i] ELSE b[i - (k - 1)]
          BY ONLY <3>1, <3>2, <2>4, <2>5, <2>6, i \in 1 .. Len(s) - 1
      <4>2. CASE i < k
        <5>1. i \in 1 .. k - 1 /\ i <= k - 1
            BY ONLY <2>4, <4>2, <3>2, i \in 1 .. Len(s) - 1
        <5> QED
            BY ONLY <2>5, <4>1, <4>2, <5>1
      <4>3. CASE ~ (i < k)
        <5>1. i - (k - 1) \in 1 .. Len(s) - k /\ ~ (i <= k - 1) /\ k + (i - (k - 1)) = i + 1
            BY ONLY <2>4, <4>3, <3>2, i \in 1 .. Len(s) - 1
        <5> QED
            BY ONLY <2>6, <4>1, <4>3, <5>1
      <4> QED
          BY ONLY <4>2, <4>3
    <3> QED
        BY ONLY <3>1, <3>3, <3>4
  <2>8. ASSUME NEW i \in 1 .. Len(s), s[i] # e
        PROVE  \E j \in 1 .. Len(s) - 1 : (a \o b)[j] = s[i]
    <3>1. CASE i < k
      <4>1. i \in 1 .. Len(s) - 1 /\ (a \o b)[i] = s[i]
          BY <3>1, <2>4, <2>7, SMTT(40)
      <4> QED
          BY <4>1
    <3>2. CASE i > k
      <4>1. i - 1 \in 1 .. Len(s) - 1 /\ (a \o b)[i - 1] = s[i]
        <5>1. i - 1 \in 1 .. Len(s) - 1 /\ ~ (i - 1 < k) /\ (i - 1) + 1 = i
            BY <3>2, <2>4
        <5> QED
            BY <5>1, <2>7
      <4> QED
          BY <4>1
    <3>3. i # k
        BY <2>4, <2>8
    <3>4. i < k \/ i > k
        BY <2>4, <3>3
    <3> QED
        BY <3>1, <3>2, <3>4, Zenon
  <2> QED
    <3>1. ToSet(s) = {s[i] : i \in 1 .. Len(s)}
        BY DEF ToSet
    <3>2. ToSet(RemoveFirst(s, e)) = {(a \o b)[j] : j \in 1 .. Len(s) - 1}
      <4>1. DOMAIN (a \o b) = 1 .. Len(s) - 1
          BY <2>7
      <4> QED
          BY ONLY <2>3, <4>1 DEF ToSet
    <3> HIDE DEF I
    <3>3. ASSUME NEW x \in ToSet(s), x # e
          PROVE  x \in ToSet(RemoveFirst(s, e))
      <4>1. PICK i \in 1 .. Len(s) : x = s[i]
          BY ONLY <3>1, x \in ToSet(s)
      <4>2. PICK j \in 1 .. Len(s) - 1 : (a \o b)[j] = x
          BY ONLY <2>8, <4>1, x # e
      <4> QED
          BY ONLY <3>2, <4>2
    <3>4. RemoveFirst(s, e) \in Seq(S)
        BY ONLY <2>3, <2>7
    <3> QED
        BY ONLY <3>3, <3>4
<1>2. CASE ~ \E i \in 1 .. Len(s) : s[i] = e
  <2>1. RemoveFirst(s, e) = s
      BY ONLY <1>2 DEF RemoveFirst
  <2> QED
      BY <2>1
<1> QED
    BY <1>1, <1>2

\* Append adds the element and loses none.
LEMMA AppendAdds ==
    ASSUME NEW S, NEW s \in Seq(S), NEW e \in S
    PROVE  e \in ToSet(Append(s, e)) /\ \A x \in ToSet(s) : x \in ToSet(Append(s, e))
<1>1. /\ Len(Append(s, e)) = Len(s) + 1 /\ Append(s, e) \in Seq(S)
      /\ \A i \in 1 .. Len(s) : Append(s, e)[i] = s[i]
      /\ Append(s, e)[Len(s) + 1] = e
    BY AppendProperties
<1>2. ToSet(s) = {s[i] : i \in 1 .. Len(s)}
    BY DEF ToSet
<1>3. ToSet(Append(s, e)) = {Append(s, e)[i] : i \in 1 .. Len(s) + 1}
    BY <1>1 DEF ToSet
<1>4. e \in ToSet(Append(s, e))
    BY <1>1, <1>3
<1>5. ASSUME NEW x \in ToSet(s)
      PROVE  x \in ToSet(Append(s, e))
  <2>1. PICK i \in 1 .. Len(s) : x = s[i]
      BY <1>2
  <2>2. i \in 1 .. Len(s) + 1 /\ Append(s, e)[i] = x
      BY <1>1, <2>1
  <2> QED
      BY <1>3, <2>2
<1> QED
    BY <1>4, <1>5

\* An element of a sequence is its head, or is in its tail.
LEMMA HeadOrTail ==
    ASSUME NEW S, NEW s \in Seq(S), s # << >>, NEW x \in ToSet(s)
    PROVE  x = Head(s) \/ x \in ToSet(Tail(s))
<1>1. PICK i \in 1 .. Len(s) : x = s[i]
    BY DEF ToSet
<1>2. CASE i = 1
    BY <1>1, <1>2
<1>3. CASE i # 1
  <2>1. /\ Tail(s) \in Seq(S) /\ Len(Tail(s)) = Len(s) - 1
        /\ \A j \in 1 .. Len(Tail(s)) : Tail(s)[j] = s[j + 1]
      BY HeadTailProperties
  <2>2. i - 1 \in 1 .. Len(Tail(s)) /\ (i - 1) + 1 = i
    <3>1. i \in Nat /\ i >= 2 /\ i <= Len(s) /\ Len(s) \in Nat
        BY <1>3
    <3> QED
        BY <2>1, <3>1
  <2>3. Tail(s)[i - 1] = x
      BY ONLY <1>1, <2>1, <2>2
  <2>4. ToSet(Tail(s)) = {Tail(s)[j] : j \in 1 .. Len(Tail(s))}
    <3>1. DOMAIN Tail(s) = 1 .. Len(Tail(s))
        BY <2>1
    <3> QED
        BY <3>1 DEF ToSet
  <2> QED
      BY <2>2, <2>3, <2>4
<1> QED
    BY <1>2, <1>3

\* The empty sequence has no element.
LEMMA EmptyHasNone == ToSet(<< >>) = {}
    BY DEF ToSet

-----------------------------------------------------------------------------
\* One thread more, or one less, in a set of threads.
LEMMA Counting ==
    ASSUME NEW S \in SUBSET Thread, NEW T \in SUBSET Thread, NEW t
    PROVE  /\ Cardinality(S) \in Nat
           /\ T \subseteq S => Cardinality(T) <= Cardinality(S)
           /\ T \subseteq S \cup {t} => Cardinality(T) <= Cardinality(S) + 1
           /\ t \in S => Cardinality(S) >= 1
           /\ t \in S /\ T \subseteq S \ {t} => Cardinality(T) <= Cardinality(S) - 1
<1>1. IsFiniteSet(S) /\ IsFiniteSet(T)
    BY RegistryAssumption, FS_Subset
<1>2. Cardinality(S) \in Nat /\ Cardinality(T) \in Nat
    BY <1>1, FS_CardinalityType
<1>3. T \subseteq S => Cardinality(T) <= Cardinality(S)
    BY <1>1, FS_Subset
<1>4. ASSUME T \subseteq S \cup {t}
      PROVE  Cardinality(T) <= Cardinality(S) + 1
  <2>1. IsFiniteSet(S \cup {t}) /\ Cardinality(S \cup {t}) <= Cardinality(S) + 1
    <3>1. /\ IsFiniteSet(S \cup {t})
          /\ Cardinality(S \cup {t}) =
                IF t \in S THEN Cardinality(S) ELSE Cardinality(S) + 1
        BY <1>1, FS_AddElement
    <3> QED
        BY <1>2, <3>1
  <2>2. Cardinality(T) <= Cardinality(S \cup {t})
      BY <1>4, <2>1, FS_Subset
  <2>3. Cardinality(S \cup {t}) \in Nat
      BY <2>1, FS_CardinalityType
  <2> QED
      BY <1>2, <2>1, <2>2, <2>3
<1>5. ASSUME t \in S
      PROVE  /\ IsFiniteSet(S \ {t}) /\ Cardinality(S \ {t}) \in Nat
             /\ Cardinality(S \ {t}) = Cardinality(S) - 1
    BY <1>1, <1>5, FS_RemoveElement, FS_CardinalityType
<1>6. t \in S => Cardinality(S) >= 1
    BY <1>2, <1>5
<1>7. t \in S /\ T \subseteq S \ {t} => Cardinality(T) <= Cardinality(S) - 1
    BY <1>5, FS_Subset
<1> QED
    BY <1>2, <1>3, <1>4, <1>6, <1>7

\* A lookup that makes a domain or a destination still has a number for it.
LEMMA Room ==
    ASSUME Typed, NEW t \in Thread
    PROVE  /\ pc[t] = "domain" => holders + 1 \in Object
           /\ pc[t] \in Looking => made + 1 \in Object
<1>1. Asking \in SUBSET Thread /\ Naming \in SUBSET Thread
    BY DEF Asking, Naming
<1>2. Cardinality(Asking) \in Nat /\ Cardinality(Naming) \in Nat
    BY <1>1, Counting
<1>3. pc[t] = "domain" => Cardinality(Asking) >= 1
    BY <1>1, Counting DEF Asking
<1>4. pc[t] \in Looking => Cardinality(Naming) >= 1
    BY <1>1, Counting DEF Naming
<1>5. /\ holders \in Nat /\ made \in Nat /\ ops \in Nat /\ MaxOps \in Nat /\ ops <= MaxOps
      /\ holders + Cardinality(Asking) <= ops /\ made + Cardinality(Naming) <= ops
    BY RegistryAssumption DEF Typed, TypeOK, Counted, ObjectOrNone
<1> QED
    BY <1>2, <1>3, <1>4, <1>5 DEF Object

\* RemovePage, apart from the map it changes.
LEMMA AfterRemoval ==
    ASSUME NEW t \in Thread, RemovePage(t)
    PROVE  /\ pc[t] = "remove"
           /\ \/ op[t] = "invalidate" /\ Goto(t, "next") /\ UNCHANGED <<op, page, holder, dest>>
              \/ op[t] # "invalidate" /\ End(t)
           /\ UNCHANGED <<domains, made, home, critical, webPages, todo, timer, ops, history>>
    BY DEF RemovePage, At

\* Every step keeps the types.
LEMMA TypeStep ==
    ASSUME Typed, [Next]_vars
    PROVE  TypeOK'
<1> USE RegistryAssumption DEF TypeOK, Begin, End, HasHolder, HasDest, TimerGoes,
      At, Goto, Ops, Steps, HolderInHand, DestInHand, TimerSteps, Asleep,
      Looking, InDestination,
      domains, destinations, webPages, control, found, history
<1> TypeOK
    BY DEF Typed
<1>0. None \in ObjectOrNone /\ \A x \in Object : x \in ObjectOrNone
    BY DEF None, Object, ObjectOrNone
<1>1. ASSUME NEW t \in Thread, Publish(t)
     PROVE  TypeOK'
    BY <1>1 DEF Publish, ObjectOrNone
<1>2. ASSUME NEW t \in Thread, NEW p \in Page, Subscribe(t, p)
     PROVE  TypeOK'
    BY <1>2 DEF Subscribe, ObjectOrNone
<1>3. ASSUME NEW t \in Thread, NEW p \in Page, Unsubscribe(t, p)
     PROVE  TypeOK'
    BY <1>3 DEF Unsubscribe, ObjectOrNone
<1>4. ASSUME NEW t \in Thread, NEW p \in Page, Invalidate(t, p)
     PROVE  TypeOK'
    BY <1>4 DEF Invalidate, ObjectOrNone
<1>5. ASSUME NEW t \in Thread, GetDomain(t)
     PROVE  TypeOK'
    BY <1>5 DEF GetDomain, ObjectOrNone
<1>6. ASSUME NEW t \in Thread, MakeDomain(t)
     PROVE  TypeOK'
  <2>1. holders + 1 \in Object
      BY <1>6, Room DEF MakeDomain
  <2> QED
      BY <1>6, <2>1 DEF MakeDomain, Object, ObjectOrNone
<1>7. ASSUME NEW t \in Thread, TouchDomain(t)
     PROVE  TypeOK'
    BY <1>7 DEF TouchDomain
<1>8. ASSUME NEW t \in Thread, GetDest(t)
     PROVE  TypeOK'
  <2>1. entry[holder[t]] \in ObjectOrNone
      BY <1>8 DEF GetDest, Typed, Control, ThreadOK
  <2> QED
      BY <1>8, <1>0, <2>1 DEF GetDest
<1>9. ASSUME NEW t \in Thread, MakeDest(t)
     PROVE  TypeOK'
  <2>1. made + 1 \in Object /\ holder[t] \in Object
      BY <1>9, Room DEF MakeDest, Typed, Control, ThreadOK
  <2>2. entry' \in [Object -> ObjectOrNone] /\ home' \in [Object -> ObjectOrNone]
      BY <1>9, <1>0, <2>1 DEF MakeDest
  <2>3. dest' \in [Thread -> ObjectOrNone] /\ holder' \in [Thread -> ObjectOrNone]
      BY <1>9, <1>0, <2>1 DEF MakeDest
  <2>4. made' \in ObjectOrNone /\ lateHolders' \subseteq Object
      BY <1>9, <1>0, <2>1 DEF MakeDest
  <2> QED
      BY <1>9, <2>2, <2>3, <2>4 DEF MakeDest
<1>10. ASSUME NEW t \in Thread, Published(t)
      PROVE  TypeOK'
    BY <1>10, <1>0 DEF Published
<1>11. ASSUME NEW t \in Thread, Reset(t)
      PROVE  TypeOK'
    BY <1>11 DEF Reset, Typed, Control, ThreadOK
<1>12. ASSUME NEW t \in Thread, Put(t)
      PROVE  TypeOK'
  <2>1. dest[t] \in Object /\ page[t] \in Page
      BY <1>12 DEF Put, Typed, Control, ThreadOK
  <2> QED
      BY <1>12, <2>1 DEF Put
<1>13. ASSUME NEW t \in Thread, AlreadyPut(t)
      PROVE  TypeOK'
    BY <1>13, <1>0 DEF AlreadyPut
<1>14. ASSUME NEW t \in Thread, Link(t)
      PROVE  TypeOK'
  <2>1. dest[t] \in Object /\ page[t] \in Page
      BY <1>14 DEF Link, Typed, Control, ThreadOK
  <2>2. links' \in [Page -> Seq(Object)]
      BY <1>14, <2>1, AppendProperties DEF Link
  <2> QED
      BY <1>14, <1>0, <2>2 DEF Link
<1>15. ASSUME NEW t \in Thread, Leave(t)
      PROVE  TypeOK'
  <2>1. page[t] \in Page
      BY <1>15 DEF Leave, Typed, Control, ThreadOK
  <2> QED
      BY <1>15, <2>1 DEF Leave
<1>16. ASSUME NEW t \in Thread, NextDest(t)
      PROVE  TypeOK'
  <2>1. Head(todo[t]) \in Object /\ Tail(todo[t]) \in Seq(Object)
      BY <1>16, HeadTailProperties DEF NextDest
  <2> QED
      BY <1>16, <1>0, <2>1 DEF NextDest
<1>17. ASSUME NEW t \in Thread, Invalidated(t)
      PROVE  TypeOK'
  <2>1. page[t] \in Page
      BY <1>17 DEF Invalidated, Typed, Control, ThreadOK
  <2>2. links' \in [Page -> Seq(Object)]
      BY <1>17, <2>1 DEF Invalidated
  <2> QED
      BY <1>17, <1>0, <2>2 DEF Invalidated
<1>18. ASSUME NEW t \in Thread, Unlink(t)
      PROVE  TypeOK'
  <2>1. page[t] \in Page
      BY <1>18 DEF Unlink, Typed, Control, ThreadOK
  <2>2. RemoveFirst(links[page[t]], dest[t]) \in Seq(Object)
      BY <2>1, RemoveFirstKeeps
  <2> QED
      BY <1>18, <2>1, <2>2 DEF Unlink
<1>19. ASSUME NEW t \in Thread, RemovePage(t)
      PROVE  TypeOK'
  <2>1. dest[t] \in Object /\ page[t] \in Page
      BY <1>19 DEF RemovePage, Typed, Control, ThreadOK
  <2>2. pages' \in [Object -> SUBSET Page]
      BY <1>19, <2>1 DEF RemovePage, Others
  <2>3. UNCHANGED <<domains, made, home, critical, webPages, todo, timer, ops, history>>
      BY <1>19, AfterRemoval
  <2>4. CASE Goto(t, "next") /\ UNCHANGED <<op, page, holder, dest>>
      BY <2>2, <2>3, <2>4
  <2>5. CASE End(t)
      BY <1>0, <2>2, <2>3, <2>5
  <2> QED
      BY <1>19, <2>4, <2>5, AfterRemoval
<1>20. ASSUME Wake
      PROVE  TypeOK'
    BY <1>20, <1>0 DEF Wake
<1>21. ASSUME Visit
      PROVE  TypeOK'
  <2>1. timer.holder \in Object
      BY <1>21 DEF Visit, Typed, TimerOK, ObjectOrNone, Object, None
  <2>2. timer' \in [at : TimerSteps, holder : ObjectOrNone, dest : ObjectOrNone]
      BY <1>21, <2>1 DEF Visit, IfCritical
  <2> QED
      BY <1>21, <2>2 DEF Visit
<1>22. ASSUME TestEmpty
      PROVE  TypeOK'
    BY <1>22, <1>0 DEF TestEmpty
<1>23. ASSUME Evict
      PROVE  TypeOK'
  <2>1. timer' \in [at : TimerSteps, holder : ObjectOrNone, dest : ObjectOrNone]
      BY <1>23, <1>0 DEF Evict
  <2>2. timer.holder \in Object /\ timer.dest \in Object
      BY <1>23 DEF Evict, Typed, TimerOK, AtDestination, ObjectOrNone, Object, None
  <2>3. entry' \in [Object -> ObjectOrNone] /\ late' \subseteq Object
      BY <1>23, <1>0, <2>2 DEF Evict
  <2> QED
      BY <1>23, <2>1, <2>3 DEF Evict
<1>24. ASSUME Mark
      PROVE  TypeOK'
  <2>1. timer.dest \in Object
      BY <1>24 DEF Mark, Typed, TimerOK, AtDestination, ObjectOrNone, Object, None
  <2> QED
      BY <1>24, <2>1 DEF Mark, Marked
<1>25. ASSUME TestIdle
      PROVE  TypeOK'
    BY <1>25, <1>0 DEF TestIdle
<1>26. ASSUME TestHolderEmpty
      PROVE  TypeOK'
  <2>1. timer' \in [at : TimerSteps, holder : ObjectOrNone, dest : ObjectOrNone]
      BY <1>26, <1>0 DEF TestHolderEmpty
  <2> QED
      BY <1>26, <2>1 DEF TestHolderEmpty
<1>27. ASSUME EvictHolder
      PROVE  TypeOK'
  <2>1. timer' \in [at : TimerSteps, holder : ObjectOrNone, dest : ObjectOrNone]
      BY <1>27, <1>0 DEF EvictHolder
  <2>2. timer.holder \in Object
      BY <1>27 DEF EvictHolder, Typed, TimerOK, ObjectOrNone, Object, None
  <2> QED
      BY <1>27, <2>1, <2>2 DEF EvictHolder
<1>28. ASSUME MarkHolder
      PROVE  TypeOK'
  <2>1. timer.holder \in Object
      BY <1>28 DEF MarkHolder, Typed, TimerOK, ObjectOrNone, Object, None
  <2> QED
      BY <1>28, <1>0, <2>1 DEF MarkHolder
<1>29. CASE UNCHANGED vars
    BY <1>29 DEF vars
<1> QED
    BY <1>1, <1>2, <1>3, <1>4, <1>5, <1>6, <1>7, <1>8, <1>9, <1>10, <1>11,
       <1>12, <1>13, <1>14, <1>15, <1>16, <1>17, <1>18, <1>19, <1>20, <1>21,
       <1>22, <1>23, <1>24, <1>25, <1>26, <1>27, <1>28, <1>29
       DEF Next, Timer, Step, Lookup, Register, UnRegister, Request

\* A thread has in hand what its step needs.
LEMMA ControlStep ==
    ASSUME Typed, [Next]_vars
    PROVE  Control'
<1> SUFFICES ASSUME NEW u \in Thread
             PROVE  ThreadOK(u)'
    BY DEF Control
<1> USE DEF Typed, TypeOK, Control, ThreadOK, Begin, End, HasHolder, HasDest, TimerGoes,
      At, Goto, Ops, Steps, HolderInHand, DestInHand, Looking, InDestination,
      domains, destinations, webPages, control, found, history
<1>1. ASSUME NEW t \in Thread, Publish(t)
     PROVE  ThreadOK(u)'
    BY <1>1 DEF Publish
<1>2. ASSUME NEW t \in Thread, NEW p \in Page, Subscribe(t, p)
     PROVE  ThreadOK(u)'
    BY <1>2 DEF Subscribe
<1>3. ASSUME NEW t \in Thread, NEW p \in Page, Unsubscribe(t, p)
     PROVE  ThreadOK(u)'
    BY <1>3 DEF Unsubscribe
<1>4. ASSUME NEW t \in Thread, NEW p \in Page, Invalidate(t, p)
     PROVE  ThreadOK(u)'
    BY <1>4 DEF Invalidate
<1>5. ASSUME NEW t \in Thread, GetDomain(t)
     PROVE  ThreadOK(u)'
  <2>1. domain \in Object
      BY <1>5 DEF GetDomain, Object, ObjectOrNone, None
  <2> QED
      BY <1>5, <2>1 DEF GetDomain
<1>6. ASSUME NEW t \in Thread, MakeDomain(t)
     PROVE  ThreadOK(u)'
  <2>1. holders + 1 \in Object
      BY <1>6, Room DEF MakeDomain
  <2> QED
      BY <1>6, <2>1 DEF MakeDomain
<1>7. ASSUME NEW t \in Thread, TouchDomain(t)
     PROVE  ThreadOK(u)'
    BY <1>7 DEF TouchDomain
<1>8. ASSUME NEW t \in Thread, GetDest(t)
     PROVE  ThreadOK(u)'
  <2>1. entry[holder[t]] \in Object
      BY <1>8 DEF GetDest, Object, ObjectOrNone, None
  <2> QED
      BY <1>8, <2>1 DEF GetDest
<1>9. ASSUME NEW t \in Thread, MakeDest(t)
     PROVE  ThreadOK(u)'
  <2>1. made + 1 \in Object
      BY <1>9, Room DEF MakeDest
  <2> QED
      BY <1>9, <2>1 DEF MakeDest
<1>10. ASSUME NEW t \in Thread, Published(t)
      PROVE  ThreadOK(u)'
    BY <1>10 DEF Published
<1>11. ASSUME NEW t \in Thread, Reset(t)
      PROVE  ThreadOK(u)'
    BY <1>11 DEF Reset
<1>12. ASSUME NEW t \in Thread, Put(t)
      PROVE  ThreadOK(u)'
    BY <1>12 DEF Put
<1>13. ASSUME NEW t \in Thread, AlreadyPut(t)
      PROVE  ThreadOK(u)'
    BY <1>13 DEF AlreadyPut
<1>14. ASSUME NEW t \in Thread, Link(t)
      PROVE  ThreadOK(u)'
    BY <1>14 DEF Link
<1>15. ASSUME NEW t \in Thread, Leave(t)
      PROVE  ThreadOK(u)'
    BY <1>15 DEF Leave
<1>16. ASSUME NEW t \in Thread, NextDest(t)
      PROVE  ThreadOK(u)'
  <2>1. Head(todo[t]) \in Object
      BY <1>16, HeadTailProperties DEF NextDest
  <2> QED
      BY <1>16, <2>1 DEF NextDest
<1>17. ASSUME NEW t \in Thread, Invalidated(t)
      PROVE  ThreadOK(u)'
    BY <1>17 DEF Invalidated
<1>18. ASSUME NEW t \in Thread, Unlink(t)
      PROVE  ThreadOK(u)'
    BY <1>18 DEF Unlink
<1>19. ASSUME NEW t \in Thread, RemovePage(t)
      PROVE  ThreadOK(u)'
  <2>1. CASE op[t] = "invalidate" /\ Goto(t, "next") /\ UNCHANGED <<op, page, holder, dest>>
      BY <2>1
  <2>2. CASE End(t)
      BY <2>2
  <2> QED
      BY <1>19, <2>1, <2>2, AfterRemoval
<1>20. ASSUME Wake
      PROVE  ThreadOK(u)'
    BY <1>20 DEF Wake
<1>21. ASSUME Visit
      PROVE  ThreadOK(u)'
    BY <1>21 DEF Visit
<1>22. ASSUME TestEmpty
      PROVE  ThreadOK(u)'
    BY <1>22 DEF TestEmpty
<1>23. ASSUME Evict
      PROVE  ThreadOK(u)'
    BY <1>23 DEF Evict
<1>24. ASSUME Mark
      PROVE  ThreadOK(u)'
    BY <1>24 DEF Mark
<1>25. ASSUME TestIdle
      PROVE  ThreadOK(u)'
    BY <1>25 DEF TestIdle
<1>26. ASSUME TestHolderEmpty
      PROVE  ThreadOK(u)'
    BY <1>26 DEF TestHolderEmpty
<1>27. ASSUME EvictHolder
      PROVE  ThreadOK(u)'
    BY <1>27 DEF EvictHolder
<1>28. ASSUME MarkHolder
      PROVE  ThreadOK(u)'
    BY <1>28 DEF MarkHolder
<1>29. CASE UNCHANGED vars
    BY <1>29 DEF vars
<1> QED
    BY <1>1, <1>2, <1>3, <1>4, <1>5, <1>6, <1>7, <1>8, <1>9, <1>10, <1>11,
       <1>12, <1>13, <1>14, <1>15, <1>16, <1>17, <1>18, <1>19, <1>20, <1>21,
       <1>22, <1>23, <1>24, <1>25, <1>26, <1>27, <1>28, <1>29
       DEF Next, Timer, Step, Lookup, Register, UnRegister, Request

\* The timer has a holder and a destination of it in hand.
LEMMA TimerStep ==
    ASSUME Typed, [Next]_vars
    PROVE  TimerOK'
<1> USE DEF Typed, TypeOK, TimerOK, AtDestination, TimerSteps, Begin, End, HasHolder, HasDest,
      TimerGoes, Asleep, At, domains, destinations, webPages, control, found, history
<1>1. ASSUME NEW t \in Thread, Publish(t)
     PROVE  TimerOK'
    BY <1>1 DEF Publish
<1>2. ASSUME NEW t \in Thread, NEW p \in Page, Subscribe(t, p)
     PROVE  TimerOK'
    BY <1>2 DEF Subscribe
<1>3. ASSUME NEW t \in Thread, NEW p \in Page, Unsubscribe(t, p)
     PROVE  TimerOK'
    BY <1>3 DEF Unsubscribe
<1>4. ASSUME NEW t \in Thread, NEW p \in Page, Invalidate(t, p)
     PROVE  TimerOK'
    BY <1>4 DEF Invalidate
<1>5. ASSUME NEW t \in Thread, GetDomain(t)
     PROVE  TimerOK'
    BY <1>5 DEF GetDomain
<1>6. ASSUME NEW t \in Thread, MakeDomain(t)
     PROVE  TimerOK'
    BY <1>6 DEF MakeDomain
<1>7. ASSUME NEW t \in Thread, TouchDomain(t)
     PROVE  TimerOK'
    BY <1>7 DEF TouchDomain
<1>8. ASSUME NEW t \in Thread, GetDest(t)
     PROVE  TimerOK'
    BY <1>8 DEF GetDest
<1>9. ASSUME NEW t \in Thread, MakeDest(t)
     PROVE  TimerOK'
    BY <1>9 DEF MakeDest
<1>10. ASSUME NEW t \in Thread, Published(t)
      PROVE  TimerOK'
    BY <1>10 DEF Published
<1>11. ASSUME NEW t \in Thread, Reset(t)
      PROVE  TimerOK'
    BY <1>11 DEF Reset
<1>12. ASSUME NEW t \in Thread, Put(t)
      PROVE  TimerOK'
    BY <1>12 DEF Put
<1>13. ASSUME NEW t \in Thread, AlreadyPut(t)
      PROVE  TimerOK'
    BY <1>13 DEF AlreadyPut
<1>14. ASSUME NEW t \in Thread, Link(t)
      PROVE  TimerOK'
    BY <1>14 DEF Link
<1>15. ASSUME NEW t \in Thread, Leave(t)
      PROVE  TimerOK'
    BY <1>15 DEF Leave
<1>16. ASSUME NEW t \in Thread, NextDest(t)
      PROVE  TimerOK'
    BY <1>16 DEF NextDest
<1>17. ASSUME NEW t \in Thread, Invalidated(t)
      PROVE  TimerOK'
    BY <1>17 DEF Invalidated
<1>18. ASSUME NEW t \in Thread, Unlink(t)
      PROVE  TimerOK'
    BY <1>18 DEF Unlink
<1>19. ASSUME NEW t \in Thread, RemovePage(t)
      PROVE  TimerOK'
    BY <1>19 DEF RemovePage
<1>20. ASSUME Wake
      PROVE  TimerOK'
    BY <1>20 DEF Wake
<1>21. ASSUME Visit
      PROVE  TimerOK'
    BY <1>21 DEF Visit
<1>22. ASSUME TestEmpty
      PROVE  TimerOK'
    BY <1>22 DEF TestEmpty
<1>23. ASSUME Evict
      PROVE  TimerOK'
    BY <1>23 DEF Evict
<1>24. ASSUME Mark
      PROVE  TimerOK'
    BY <1>24 DEF Mark
<1>25. ASSUME TestIdle
      PROVE  TimerOK'
    BY <1>25 DEF TestIdle
<1>26. ASSUME TestHolderEmpty
      PROVE  TimerOK'
    BY <1>26 DEF TestHolderEmpty
<1>27. ASSUME EvictHolder
      PROVE  TimerOK'
    BY <1>27 DEF EvictHolder
<1>28. ASSUME MarkHolder
      PROVE  TimerOK'
    BY <1>28 DEF MarkHolder
<1>29. CASE UNCHANGED vars
    BY <1>29 DEF vars
<1> QED
    BY <1>1, <1>2, <1>3, <1>4, <1>5, <1>6, <1>7, <1>8, <1>9, <1>10, <1>11,
       <1>12, <1>13, <1>14, <1>15, <1>16, <1>17, <1>18, <1>19, <1>20, <1>21,
       <1>22, <1>23, <1>24, <1>25, <1>26, <1>27, <1>28, <1>29
       DEF Next, Timer, Step, Lookup, Register, UnRegister, Request

\* An operation makes one domain and one destination at most.
LEMMA CountedStep ==
    ASSUME Typed, [Next]_vars
    PROVE  Counted'
<1>a. /\ Asking \in SUBSET Thread /\ Naming \in SUBSET Thread
      /\ Asking' \in SUBSET Thread /\ Naming' \in SUBSET Thread
      /\ Cardinality(Asking) \in Nat /\ Cardinality(Naming) \in Nat
      /\ Cardinality(Asking') \in Nat /\ Cardinality(Naming') \in Nat
      /\ holders \in Nat /\ made \in Nat /\ ops \in Nat
      /\ holders + Cardinality(Asking) <= ops /\ made + Cardinality(Naming) <= ops
  <2>1. /\ Asking \in SUBSET Thread /\ Naming \in SUBSET Thread
        /\ Asking' \in SUBSET Thread /\ Naming' \in SUBSET Thread
      BY DEF Asking, Naming
  <2>2. /\ Cardinality(Asking) \in Nat /\ Cardinality(Naming) \in Nat
        /\ Cardinality(Asking') \in Nat /\ Cardinality(Naming') \in Nat
      BY <2>1, Counting
  <2> QED
      BY <2>1, <2>2, RegistryAssumption DEF Typed, TypeOK, Counted, ObjectOrNone
\* a step that makes nothing and begins nothing
<1>b. ASSUME UNCHANGED <<holders, made, ops>>,
             Asking' \subseteq Asking, Naming' \subseteq Naming
      PROVE  Counted'
  <2>1. /\ Cardinality(Asking') <= Cardinality(Asking)
        /\ Cardinality(Naming') <= Cardinality(Naming)
      BY <1>a, <1>b, Counting
  <2> QED
      BY <1>a, <1>b, <2>1 DEF Counted
\* the beginning of an operation
<1>c. ASSUME NEW t \in Thread, UNCHANGED <<holders, made>>, ops' = ops + 1,
             Asking' \subseteq Asking \cup {t}, Naming' \subseteq Naming \cup {t}
      PROVE  Counted'
  <2>1. /\ Cardinality(Asking') <= Cardinality(Asking) + 1
        /\ Cardinality(Naming') <= Cardinality(Naming) + 1
      BY <1>a, <1>c, Counting
  <2> QED
      BY <1>a, <1>c, <2>1 DEF Counted
\* the making of a domain, and of a destination
<1>d. ASSUME NEW t \in Asking, UNCHANGED <<made, ops>>, holders' = holders + 1,
             Asking' \subseteq Asking \ {t}, Naming' \subseteq Naming
      PROVE  Counted'
  <2>1. /\ Cardinality(Asking') <= Cardinality(Asking) - 1
        /\ Cardinality(Naming') <= Cardinality(Naming)
      BY <1>a, <1>d, Counting
  <2> QED
      BY <1>a, <1>d, <2>1 DEF Counted
<1>e. ASSUME NEW t \in Naming, UNCHANGED <<holders, ops>>, made' = made + 1,
             Asking' \subseteq Asking, Naming' \subseteq Naming \ {t}
      PROVE  Counted'
  <2>1. /\ Cardinality(Naming') <= Cardinality(Naming) - 1
        /\ Cardinality(Asking') <= Cardinality(Asking)
      BY <1>a, <1>e, Counting
  <2> QED
      BY <1>a, <1>e, <2>1 DEF Counted
<1> USE DEF Typed, TypeOK, Begin, End, HasHolder, HasDest, TimerGoes,
      At, Goto, Ops, Steps, HolderInHand, DestInHand, Looking, Asking, Naming,
      domains, destinations, webPages, control, found, history
<1>1. ASSUME NEW t \in Thread, Publish(t)
     PROVE  Counted'
    BY <1>1, <1>c DEF Publish
<1>2. ASSUME NEW t \in Thread, NEW p \in Page, Subscribe(t, p)
     PROVE  Counted'
    BY <1>2, <1>c DEF Subscribe
<1>3. ASSUME NEW t \in Thread, NEW p \in Page, Unsubscribe(t, p)
     PROVE  Counted'
    BY <1>3, <1>c DEF Unsubscribe
<1>4. ASSUME NEW t \in Thread, NEW p \in Page, Invalidate(t, p)
     PROVE  Counted'
    BY <1>4, <1>c DEF Invalidate
<1>5. ASSUME NEW t \in Thread, GetDomain(t)
     PROVE  Counted'
    BY <1>5, <1>b DEF GetDomain
<1>6. ASSUME NEW t \in Thread, MakeDomain(t)
     PROVE  Counted'
  <2>1. holders' = holders + 1 /\ t \in Asking /\ Asking' \subseteq Asking \ {t}
      BY <1>6 DEF MakeDomain
  <2>2. made' = made /\ ops' = ops /\ Naming' \subseteq Naming
      BY <1>6 DEF MakeDomain
  <2> HIDE DEF Asking, Naming
  <2> QED
      BY ONLY <1>d, <2>1, <2>2
<1>7. ASSUME NEW t \in Thread, TouchDomain(t)
     PROVE  Counted'
    BY <1>7, <1>b DEF TouchDomain
<1>8. ASSUME NEW t \in Thread, GetDest(t)
     PROVE  Counted'
    BY <1>8, <1>b DEF GetDest
<1>9. ASSUME NEW t \in Thread, MakeDest(t)
     PROVE  Counted'
  <2>1. made' = made + 1 /\ t \in Naming /\ Naming' \subseteq Naming \ {t}
      BY <1>9, SMTT(40) DEF MakeDest
  <2>2. holders' = holders /\ ops' = ops /\ Asking' \subseteq Asking
      BY <1>9, SMTT(40) DEF MakeDest
  <2> HIDE DEF Asking, Naming
  <2> QED
      BY ONLY <1>e, <2>1, <2>2
<1>10. ASSUME NEW t \in Thread, Published(t)
      PROVE  Counted'
    BY <1>10, <1>b DEF Published
<1>11. ASSUME NEW t \in Thread, Reset(t)
      PROVE  Counted'
    BY <1>11, <1>b DEF Reset
<1>12. ASSUME NEW t \in Thread, Put(t)
      PROVE  Counted'
    BY <1>12, <1>b DEF Put
<1>13. ASSUME NEW t \in Thread, AlreadyPut(t)
      PROVE  Counted'
    BY <1>13, <1>b DEF AlreadyPut
<1>14. ASSUME NEW t \in Thread, Link(t)
      PROVE  Counted'
    BY <1>14, <1>b DEF Link
<1>15. ASSUME NEW t \in Thread, Leave(t)
      PROVE  Counted'
    BY <1>15, <1>b DEF Leave
<1>16. ASSUME NEW t \in Thread, NextDest(t)
      PROVE  Counted'
    BY <1>16, <1>b DEF NextDest
<1>17. ASSUME NEW t \in Thread, Invalidated(t)
      PROVE  Counted'
    BY <1>17, <1>b DEF Invalidated
<1>18. ASSUME NEW t \in Thread, Unlink(t)
      PROVE  Counted'
    BY <1>18, <1>b DEF Unlink
<1>19. ASSUME NEW t \in Thread, RemovePage(t)
      PROVE  Counted'
    BY <1>19, <1>b DEF RemovePage
<1>20. ASSUME Wake
      PROVE  Counted'
    BY <1>20, <1>b DEF Wake
<1>21. ASSUME Visit
      PROVE  Counted'
    BY <1>21, <1>b DEF Visit
<1>22. ASSUME TestEmpty
      PROVE  Counted'
    BY <1>22, <1>b DEF TestEmpty
<1>23. ASSUME Evict
      PROVE  Counted'
    BY <1>23, <1>b DEF Evict
<1>24. ASSUME Mark
      PROVE  Counted'
    BY <1>24, <1>b DEF Mark
<1>25. ASSUME TestIdle
      PROVE  Counted'
    BY <1>25, <1>b DEF TestIdle
<1>26. ASSUME TestHolderEmpty
      PROVE  Counted'
    BY <1>26, <1>b DEF TestHolderEmpty
<1>27. ASSUME EvictHolder
      PROVE  Counted'
    BY <1>27, <1>b DEF EvictHolder
<1>28. ASSUME MarkHolder
      PROVE  Counted'
    BY <1>28, <1>b DEF MarkHolder
<1>29. CASE UNCHANGED vars
    BY <1>29, <1>b DEF vars
<1> QED
    BY <1>1, <1>2, <1>3, <1>4, <1>5, <1>6, <1>7, <1>8, <1>9, <1>10, <1>11,
       <1>12, <1>13, <1>14, <1>15, <1>16, <1>17, <1>18, <1>19, <1>20, <1>21,
       <1>22, <1>23, <1>24, <1>25, <1>26, <1>27, <1>28, <1>29
       DEF Next, Timer, Step, Lookup, Register, UnRegister, Request

\* The registry begins empty.
LEMMA InitTyped == Init => Typed
<1> SUFFICES ASSUME Init PROVE Typed
    OBVIOUS
<1>1. TypeOK
    BY RegistryAssumption DEF Init, TypeOK, Object, ObjectOrNone, None, Asleep, Ops, Steps, TimerSteps
<1>2. Control /\ TimerOK
    BY DEF Init, Control, ThreadOK, TimerOK, Asleep, AtDestination, Looking, InDestination,
       HolderInHand, None
<1>3. Asking = {} /\ Naming = {}
    BY DEF Init, Asking, Naming, Looking, HolderInHand
<1>4. Counted
    BY <1>3, FS_EmptySet DEF Init, Counted
<1> QED
    BY <1>1, <1>2, <1>4 DEF Typed

\* The registry's variables keep their types: no operation makes more domains or
\* destinations than there are numbers for, whatever the interleaving.
THEOREM Typing == Spec => []TypeOK
<1>1. Typed /\ [Next]_vars => Typed'
    BY TypeStep, ControlStep, TimerStep, CountedStep DEF Typed
<1>2. Typed => TypeOK
    BY DEF Typed
<1> QED
    BY InitTyped, <1>1, <1>2, PTL DEF Spec

-----------------------------------------------------------------------------
\* Destinations stay where they were put, or are evicted under a lookup's nose.
LEMMA RegistersStep ==
    ASSUME Typed, Registers, [Next]_vars
    PROVE  Registers'
<1>t. \A u \in Thread : /\ pc[u] \in HolderInHand => holder[u] \in Object
                        /\ pc[u] \in DestInHand => dest[u] \in Object /\ page[u] \in Page
    BY DEF Typed, Control, ThreadOK, InDestination, HolderInHand, DestInHand
<1> USE <1>t DEF Typed, TypeOK, TimerOK, Begin, End, HasHolder, HasDest, TimerGoes,
      At, Goto, HolderInHand, DestInHand, AtDestination,
      domains, destinations, webPages, control, found, history, None, Object, ObjectOrNone, Asleep
<1> USE DEF Registers, Kept
<1>1. ASSUME NEW t \in Thread, Publish(t)
     PROVE  Registers'
    BY <1>1 DEF Publish
<1>2. ASSUME NEW t \in Thread, NEW p \in Page, Subscribe(t, p)
     PROVE  Registers'
    BY <1>2 DEF Subscribe
<1>3. ASSUME NEW t \in Thread, NEW p \in Page, Unsubscribe(t, p)
     PROVE  Registers'
    BY <1>3 DEF Unsubscribe
<1>4. ASSUME NEW t \in Thread, NEW p \in Page, Invalidate(t, p)
     PROVE  Registers'
    BY <1>4 DEF Invalidate
<1>5. ASSUME NEW t \in Thread, GetDomain(t)
     PROVE  Registers'
    BY <1>5 DEF GetDomain
<1>6. ASSUME NEW t \in Thread, MakeDomain(t)
     PROVE  Registers'
    BY <1>6 DEF MakeDomain
<1>7. ASSUME NEW t \in Thread, TouchDomain(t)
     PROVE  Registers'
    BY <1>7 DEF TouchDomain
<1>8. ASSUME NEW t \in Thread, GetDest(t)
     PROVE  Registers'
  <2>1. Kept(entry[holder[t]])
      BY <1>8 DEF GetDest, Registers, Kept
  <2> QED
      BY <1>8, <2>1 DEF GetDest, Registers, Kept
<1>9. ASSUME NEW t \in Thread, MakeDest(t)
     PROVE  Registers'
  <2>1. /\ holder[t] \in Object /\ made + 1 \in Object /\ made \in Nat
        /\ entry[holder[t]] = None
        /\ entry' = [entry EXCEPT ![holder[t]] = made + 1]
        /\ home' = [home EXCEPT ![made + 1] = holder[t]]
        /\ dest' = [dest EXCEPT ![t] = made + 1] /\ made' = made + 1
        /\ UNCHANGED <<pages, timer, late>>
    <3>1. made + 1 \in Object
        BY <1>9, Room DEF MakeDest, Looking
    <3> QED
        BY <1>9, <3>1 DEF MakeDest
  <2>2. ASSUME NEW d \in Object, Kept(d)
        PROVE  Kept(d)'
    <3>0. home[d] \in Object /\ entry[home[d]] = d
        BY <2>2 DEF Kept
    <3>1. d # None
        BY DEF Object, None
    <3>2. d <= made
        BY <3>0, <3>1 DEF Registers
    <3>3. home[d] # holder[t] /\ d # made + 1
        BY <2>1, <3>0, <3>1, <3>2
    <3>4. home'[d] = home[d]
        BY ONLY <2>1, <3>3, home \in [Object -> ObjectOrNone], d \in Object
    <3>5. entry'[home[d]] = d
        BY ONLY <2>1, <3>0, <3>3, entry \in [Object -> ObjectOrNone]
    <3> QED
        BY ONLY <3>0, <3>4, <3>5 DEF Kept
  <2>3. Kept(dest[t])'
      BY <2>1
  <2>4. (\A h \in Object : entry[h] # None => home[entry[h]] = h /\ entry[h] <= made)'
    <3> SUFFICES ASSUME NEW h \in Object, entry'[h] # None
                 PROVE  home'[entry'[h]] = h /\ entry'[h] <= made'
        OBVIOUS
    <3>1. CASE h = holder[t]
        BY <2>1, <3>1
    <3>2. CASE h # holder[t]
      <4>1. entry'[h] = entry[h] /\ home[entry[h]] = h /\ entry[h] <= made
          BY <2>1, <3>2
      <4>2. entry[h] # made + 1 /\ entry[h] \in Object
        <5>1. entry[h] \in ObjectOrNone /\ entry[h] # None
            BY <4>1
        <5> QED
            BY <2>1, <4>1, <5>1
      <4>3. home'[entry[h]] = home[entry[h]]
          BY <2>1, <4>2
      <4> QED
          BY ONLY <2>1, <4>1, <4>2, <4>3 DEF Object
    <3> QED
        BY <3>1, <3>2
  <2>5. (\A d \in Object : pages[d] # {} => Kept(d) \/ d \in late)'
      BY <2>1, <2>2
  <2>6. (\A u \in Thread : pc[u] \in DestInHand => Kept(dest[u]) \/ dest[u] \in late)'
    <3> SUFFICES ASSUME NEW u \in Thread, pc'[u] \in DestInHand
                 PROVE  Kept(dest[u])' \/ dest'[u] \in late'
        OBVIOUS
    <3>1. CASE u = t
        BY <2>1, <2>3, <3>1
    <3>2. CASE u # t
      <4>1. pc[u] \in DestInHand /\ dest'[u] = dest[u] /\ dest[u] \in Object
          BY <1>9, <3>2 DEF MakeDest
      <4>2. Kept(dest[u]) \/ dest[u] \in late
          BY <4>1
      <4>3. CASE Kept(dest[u])
        <5>1. Kept(dest[u])'
            BY ONLY <2>2, <4>1, <4>3 DEF Kept
        <5> QED
            BY <5>1
      <4>4. CASE dest[u] \in late
          BY ONLY <2>1, <4>1, <4>4
      <4> QED
          BY ONLY <4>2, <4>3, <4>4
    <3> QED
        BY <3>1, <3>2
  <2>7. (timer.at = "evict" /\ pages[timer.dest] # {} => timer.dest \in late)'
      BY ONLY <2>1, Registers DEF Registers
  <2> HIDE DEF Kept
  <2> QED
      BY ONLY <2>4, <2>5, <2>6, <2>7 DEF Registers
<1>10. ASSUME NEW t \in Thread, Published(t)
      PROVE  Registers'
    BY <1>10 DEF Published
<1>11. ASSUME NEW t \in Thread, Reset(t)
      PROVE  Registers'
    BY <1>11 DEF Reset
<1>12. ASSUME NEW t \in Thread, Put(t)
      PROVE  Registers'
  <2>1. /\ dest[t] \in Object /\ pc[t] = "put" /\ pc' = [pc EXCEPT ![t] = "link"]
        /\ pages' = [pages EXCEPT ![dest[t]] = @ \cup {page[t]}]
        /\ late' = IF timer.at = "evict" /\ timer.dest = dest[t]
                   THEN late \cup {dest[t]} ELSE late
        /\ UNCHANGED <<home, entry, made, dest, timer>>
      BY <1>12 DEF Put
  <2>2. late \subseteq late' /\ pc \in [Thread -> Steps] /\ pages \in [Object -> SUBSET Page]
      BY <2>1
  <2>3. \A d \in Object : Kept(d)' <=> Kept(d)
      BY ONLY <2>1 DEF Kept
  <2>4. (\A h \in Object : entry[h] # None => home[entry[h]] = h /\ entry[h] <= made)'
      BY ONLY <2>1, Registers DEF Registers
  <2>5. Kept(dest[t]) \/ dest[t] \in late
      BY ONLY <2>1, Registers DEF Registers, DestInHand
  <2>6. ASSUME NEW d \in Object, pages'[d] # {}
        PROVE  Kept(d)' \/ d \in late'
    <3>1. CASE d = dest[t]
        BY ONLY <2>1, <2>2, <2>3, <2>5, <3>1
    <3>2. CASE d # dest[t]
      <4>1. pages'[d] = pages[d]
          BY ONLY <2>1, <2>2, <3>2
      <4> QED
          BY ONLY <2>2, <2>3, <2>6, <4>1, Registers DEF Registers
    <3> QED
        BY ONLY <3>1, <3>2
  <2>7. ASSUME NEW u \in Thread, pc'[u] \in DestInHand
        PROVE  Kept(dest[u])' \/ dest'[u] \in late'
    <3>1. pc[u] \in DestInHand
        BY ONLY <2>1, <2>2, <2>7 DEF DestInHand
    <3>2. dest[u] \in Object /\ (Kept(dest[u]) \/ dest[u] \in late)
        BY ONLY <1>t, <3>1, Registers DEF Registers
    <3> QED
        BY ONLY <2>1, <2>2, <2>3, <3>2 DEF Kept
  <2>8. ASSUME timer.at = "evict", pages'[timer.dest] # {}
        PROVE  timer.dest \in late'
    <3>1. CASE timer.dest = dest[t]
        BY ONLY <2>1, <2>8, <3>1
    <3>2. CASE timer.dest # dest[t]
        BY ONLY <2>1, <2>2, <2>8, <3>2, Registers DEF Registers
    <3> QED
        BY ONLY <3>1, <3>2
  <2>9. timer' = timer
      BY ONLY <2>1
  <2> HIDE DEF Kept
  <2> QED
      BY ONLY <2>4, <2>6, <2>7, <2>8, <2>9 DEF Registers
<1>13. ASSUME NEW t \in Thread, AlreadyPut(t)
      PROVE  Registers'
    BY <1>13 DEF AlreadyPut
<1>14. ASSUME NEW t \in Thread, Link(t)
      PROVE  Registers'
    BY <1>14 DEF Link
<1>15. ASSUME NEW t \in Thread, Leave(t)
      PROVE  Registers'
    BY <1>15 DEF Leave
<1>16. ASSUME NEW t \in Thread, NextDest(t)
      PROVE  Registers'
    BY <1>16 DEF NextDest
<1>17. ASSUME NEW t \in Thread, Invalidated(t)
      PROVE  Registers'
    BY <1>17 DEF Invalidated
<1>18. ASSUME NEW t \in Thread, Unlink(t)
      PROVE  Registers'
    BY <1>18 DEF Unlink
<1>19. ASSUME NEW t \in Thread, RemovePage(t)
      PROVE  Registers'
  <2>1. \A d \in Object : pages'[d] \subseteq pages[d]
      BY <1>19 DEF RemovePage, Others
  <2>2. UNCHANGED <<home, entry, made, timer, late>>
      BY <1>19 DEF RemovePage
  <2>3. \A u \in Thread : pc'[u] \in DestInHand => pc[u] \in DestInHand /\ dest'[u] = dest[u]
    <3>1. CASE Goto(t, "next") /\ UNCHANGED <<op, page, holder, dest>>
        BY <3>1
    <3>2. CASE End(t)
        BY <3>2
    <3> QED
        BY <1>19, <3>1, <3>2, AfterRemoval
  <2>4. timer.at = "evict" => timer.dest \in Object
      OBVIOUS
  <2> QED
      BY <2>1, <2>2, <2>3, <2>4, SMTT(40)
<1>20. ASSUME Wake
      PROVE  Registers'
    BY <1>20 DEF Wake
<1>21. ASSUME Visit
      PROVE  Registers'
    BY <1>21 DEF Visit, IfCritical
<1>22. ASSUME TestEmpty
      PROVE  Registers'
  <2>1. timer'.dest = timer.dest /\ (timer'.at = "evict" => pages[timer.dest] = {})
      BY <1>22 DEF TestEmpty
  <2>2. UNCHANGED <<home, entry, made, pages, pc, dest, late>>
      BY <1>22 DEF TestEmpty
  <2> QED
      BY <2>1, <2>2
<1>23. ASSUME Evict
      PROVE  Registers'
  <2>1. /\ timer.holder \in Object /\ timer.dest \in Object
        /\ entry[timer.holder] = timer.dest
        /\ entry' = [entry EXCEPT ![timer.holder] = None]
        /\ UNCHANGED <<home, made, pages, pc, dest>> /\ timer'.at # "evict"
        /\ late \subseteq late'
      BY <1>23 DEF Evict
  <2>2. \A u \in Thread : pc[u] \in DestInHand /\ dest[u] = timer.dest => timer.dest \in late'
      BY <1>23 DEF Evict
  <2>3. pages[timer.dest] # {} => timer.dest \in late
      BY <1>23 DEF Evict
  <2>4. ASSUME NEW d \in Object, Kept(d), d # timer.dest
        PROVE  Kept(d)'
      BY <2>1, <2>4
  <2>5. (\A d \in Object : pages[d] # {} => Kept(d) \/ d \in late)'
      BY <2>1, <2>3, <2>4
  <2>6. (\A u \in Thread : pc[u] \in DestInHand => Kept(dest[u]) \/ dest[u] \in late)'
      BY <2>1, <2>2, <2>4
  <2> QED
      BY <2>1, <2>5, <2>6
<1>24. ASSUME Mark
      PROVE  Registers'
    BY <1>24 DEF Mark
<1>25. ASSUME TestIdle
      PROVE  Registers'
    BY <1>25 DEF TestIdle
<1>26. ASSUME TestHolderEmpty
      PROVE  Registers'
    BY <1>26 DEF TestHolderEmpty
<1>27. ASSUME EvictHolder
      PROVE  Registers'
    BY <1>27 DEF EvictHolder
<1>28. ASSUME MarkHolder
      PROVE  Registers'
    BY <1>28 DEF MarkHolder
<1>29. CASE UNCHANGED vars
    BY <1>29 DEF vars
<1> QED
    BY <1>1, <1>2, <1>3, <1>4, <1>5, <1>6, <1>7, <1>8, <1>9, <1>10, <1>11,
       <1>12, <1>13, <1>14, <1>15, <1>16, <1>17, <1>18, <1>19, <1>20, <1>21,
       <1>22, <1>23, <1>24, <1>25, <1>26, <1>27, <1>28, <1>29
       DEF Next, Timer, Step, Lookup, Register, UnRegister, Request

\* Destinations stay in the domain's holder, or in one evicted too early.
LEMMA DomainsStep ==
    ASSUME Typed, Domains, [Next]_vars
    PROVE  Domains'
<1>t. \A u \in Thread : /\ pc[u] \in HolderInHand => holder[u] \in Object
                        /\ pc[u] \in DestInHand => dest[u] \in Object /\ page[u] \in Page
    BY DEF Typed, Control, ThreadOK, InDestination, HolderInHand, DestInHand
<1> USE <1>t DEF Typed, TypeOK, TimerOK, Begin, End, HasHolder, HasDest, TimerGoes,
      At, Goto, HolderInHand, DestInHand, AtDestination,
      domains, destinations, webPages, control, found, history, None, Object, ObjectOrNone, Asleep
<1> USE DEF Domains
<1>1. ASSUME NEW t \in Thread, Publish(t)
     PROVE  Domains'
    BY <1>1 DEF Publish
<1>2. ASSUME NEW t \in Thread, NEW p \in Page, Subscribe(t, p)
     PROVE  Domains'
    BY <1>2 DEF Subscribe
<1>3. ASSUME NEW t \in Thread, NEW p \in Page, Unsubscribe(t, p)
     PROVE  Domains'
    BY <1>3 DEF Unsubscribe
<1>4. ASSUME NEW t \in Thread, NEW p \in Page, Invalidate(t, p)
     PROVE  Domains'
    BY <1>4 DEF Invalidate
<1>5. ASSUME NEW t \in Thread, GetDomain(t)
     PROVE  Domains'
    BY <1>5 DEF GetDomain
<1>6. ASSUME NEW t \in Thread, MakeDomain(t)
     PROVE  Domains'
    BY <1>6 DEF MakeDomain
<1>7. ASSUME NEW t \in Thread, TouchDomain(t)
     PROVE  Domains'
    BY <1>7 DEF TouchDomain
<1>8. ASSUME NEW t \in Thread, GetDest(t)
     PROVE  Domains'
    BY <1>8 DEF GetDest
<1>9. ASSUME NEW t \in Thread, MakeDest(t)
     PROVE  Domains'
    BY <1>9 DEF MakeDest
<1>10. ASSUME NEW t \in Thread, Published(t)
      PROVE  Domains'
    BY <1>10 DEF Published
<1>11. ASSUME NEW t \in Thread, Reset(t)
      PROVE  Domains'
    BY <1>11 DEF Reset
<1>12. ASSUME NEW t \in Thread, Put(t)
      PROVE  Domains'
    BY <1>12 DEF Put
<1>13. ASSUME NEW t \in Thread, AlreadyPut(t)
      PROVE  Domains'
    BY <1>13 DEF AlreadyPut
<1>14. ASSUME NEW t \in Thread, Link(t)
      PROVE  Domains'
    BY <1>14 DEF Link
<1>15. ASSUME NEW t \in Thread, Leave(t)
      PROVE  Domains'
    BY <1>15 DEF Leave
<1>16. ASSUME NEW t \in Thread, NextDest(t)
      PROVE  Domains'
    BY <1>16 DEF NextDest
<1>17. ASSUME NEW t \in Thread, Invalidated(t)
      PROVE  Domains'
    BY <1>17 DEF Invalidated
<1>18. ASSUME NEW t \in Thread, Unlink(t)
      PROVE  Domains'
    BY <1>18 DEF Unlink
<1>19. ASSUME NEW t \in Thread, RemovePage(t)
      PROVE  Domains'
    BY <1>19 DEF RemovePage
<1>20. ASSUME Wake
      PROVE  Domains'
    BY <1>20 DEF Wake
<1>21. ASSUME Visit
      PROVE  Domains'
    BY <1>21 DEF Visit, IfCritical
<1>22. ASSUME TestEmpty
      PROVE  Domains'
    BY <1>22 DEF TestEmpty
<1>23. ASSUME Evict
      PROVE  Domains'
    BY <1>23 DEF Evict
<1>24. ASSUME Mark
      PROVE  Domains'
    BY <1>24 DEF Mark
<1>25. ASSUME TestIdle
      PROVE  Domains'
    BY <1>25 DEF TestIdle
<1>26. ASSUME TestHolderEmpty
      PROVE  Domains'
    BY <1>26 DEF TestHolderEmpty
<1>27. ASSUME EvictHolder
      PROVE  Domains'
    BY <1>27 DEF EvictHolder
<1>28. ASSUME MarkHolder
      PROVE  Domains'
    BY <1>28 DEF MarkHolder
<1>29. CASE UNCHANGED vars
    BY <1>29 DEF vars
<1> QED
    BY <1>1, <1>2, <1>3, <1>4, <1>5, <1>6, <1>7, <1>8, <1>9, <1>10, <1>11,
       <1>12, <1>13, <1>14, <1>15, <1>16, <1>17, <1>18, <1>19, <1>20, <1>21,
       <1>22, <1>23, <1>24, <1>25, <1>26, <1>27, <1>28, <1>29
       DEF Next, Timer, Step, Lookup, Register, UnRegister, Request

-----------------------------------------------------------------------------
\* A page that leaves during its registration is remembered.
LEMMA InvitedStep ==
    ASSUME Typed, Invited, [Next]_vars
    PROVE  Invited'
<1> USE DEF Typed, TypeOK, Control, ThreadOK, Begin, End, HasHolder, HasDest, TimerGoes,
      At, Goto, HolderInHand, DestInHand, Looking, InDestination,
      domains, destinations, webPages, control, found, history
<1> USE DEF Invited
<1>1. ASSUME NEW t \in Thread, Publish(t)
     PROVE  Invited'
    BY <1>1 DEF Publish
<1>2. ASSUME NEW t \in Thread, NEW p \in Page, Subscribe(t, p)
     PROVE  Invited'
    BY <1>2 DEF Subscribe
<1>3. ASSUME NEW t \in Thread, NEW p \in Page, Unsubscribe(t, p)
     PROVE  Invited'
    BY <1>3 DEF Unsubscribe
<1>4. ASSUME NEW t \in Thread, NEW p \in Page, Invalidate(t, p)
     PROVE  Invited'
    BY <1>4 DEF Invalidate
<1>5. ASSUME NEW t \in Thread, GetDomain(t)
     PROVE  Invited'
    BY <1>5 DEF GetDomain
<1>6. ASSUME NEW t \in Thread, MakeDomain(t)
     PROVE  Invited'
    BY <1>6 DEF MakeDomain
<1>7. ASSUME NEW t \in Thread, TouchDomain(t)
     PROVE  Invited'
    BY <1>7 DEF TouchDomain
<1>8. ASSUME NEW t \in Thread, GetDest(t)
     PROVE  Invited'
    BY <1>8 DEF GetDest
<1>9. ASSUME NEW t \in Thread, MakeDest(t)
     PROVE  Invited'
    BY <1>9 DEF MakeDest
<1>10. ASSUME NEW t \in Thread, Published(t)
      PROVE  Invited'
    BY <1>10 DEF Published
<1>11. ASSUME NEW t \in Thread, Reset(t)
      PROVE  Invited'
    BY <1>11 DEF Reset
<1>12. ASSUME NEW t \in Thread, Put(t)
      PROVE  Invited'
    BY <1>12 DEF Put
<1>13. ASSUME NEW t \in Thread, AlreadyPut(t)
      PROVE  Invited'
    BY <1>13 DEF AlreadyPut
<1>14. ASSUME NEW t \in Thread, Link(t)
      PROVE  Invited'
  <2>1. \A u \in Thread : op'[u] = "subscribe" => op[u] = "subscribe" /\ page'[u] = page[u]
      BY <1>14 DEF Link
  <2>2. UNCHANGED <<live, overlapped>>
      BY <1>14 DEF Link
  <2> QED
      BY <2>1, <2>2
<1>15. ASSUME NEW t \in Thread, Leave(t)
      PROVE  Invited'
  <2>1. UNCHANGED <<op, page>> /\ page[t] \in Page /\ live' = [live EXCEPT ![page[t]] = FALSE]
      BY <1>15 DEF Leave
  <2>2. overlapped \subseteq overlapped' /\ (Overlaps(page[t]) => page[t] \in overlapped')
      BY <1>15 DEF Leave
  <2>3. ASSUME NEW u \in Thread, op[u] = "subscribe"
        PROVE  live'[page[u]] \/ page[u] \in overlapped'
    <3>1. CASE page[u] = page[t]
        BY <2>2, <2>3, <3>1 DEF Overlaps
    <3>2. CASE page[u] # page[t]
        BY <2>1, <2>2, <2>3, <3>2
    <3> QED
        BY <3>1, <3>2
  <2> QED
      BY <2>1, <2>3
<1>16. ASSUME NEW t \in Thread, NextDest(t)
      PROVE  Invited'
    BY <1>16 DEF NextDest
<1>17. ASSUME NEW t \in Thread, Invalidated(t)
      PROVE  Invited'
    BY <1>17 DEF Invalidated
<1>18. ASSUME NEW t \in Thread, Unlink(t)
      PROVE  Invited'
    BY <1>18 DEF Unlink
<1>19. ASSUME NEW t \in Thread, RemovePage(t)
      PROVE  Invited'
    BY <1>19 DEF RemovePage
<1>20. ASSUME Wake
      PROVE  Invited'
    BY <1>20 DEF Wake
<1>21. ASSUME Visit
      PROVE  Invited'
    BY <1>21 DEF Visit
<1>22. ASSUME TestEmpty
      PROVE  Invited'
    BY <1>22 DEF TestEmpty
<1>23. ASSUME Evict
      PROVE  Invited'
    BY <1>23 DEF Evict
<1>24. ASSUME Mark
      PROVE  Invited'
    BY <1>24 DEF Mark
<1>25. ASSUME TestIdle
      PROVE  Invited'
    BY <1>25 DEF TestIdle
<1>26. ASSUME TestHolderEmpty
      PROVE  Invited'
    BY <1>26 DEF TestHolderEmpty
<1>27. ASSUME EvictHolder
      PROVE  Invited'
    BY <1>27 DEF EvictHolder
<1>28. ASSUME MarkHolder
      PROVE  Invited'
    BY <1>28 DEF MarkHolder
<1>29. CASE UNCHANGED vars
    BY <1>29 DEF vars
<1> QED
    BY <1>1, <1>2, <1>3, <1>4, <1>5, <1>6, <1>7, <1>8, <1>9, <1>10, <1>11,
       <1>12, <1>13, <1>14, <1>15, <1>16, <1>17, <1>18, <1>19, <1>20, <1>21,
       <1>22, <1>23, <1>24, <1>25, <1>26, <1>27, <1>28, <1>29
       DEF Next, Timer, Step, Lookup, Register, UnRegister, Request

\* A step that neither changes a page nor moves a thread that is at work on one
Still(u) == op'[u] = op[u] /\ pc'[u] = pc[u] /\ page'[u] = page[u] /\ dest'[u] = dest[u]

Quiet ==
    /\ UNCHANGED <<pages, links, live, overlapped, todo>>
    /\ \A u \in Thread :
        /\ op[u] = "invalidate" \/ pc[u] \in {"link", "remove"} => Still(u)
        /\ op'[u] = "invalidate" /\ op[u] # "invalidate" => pc'[u] = "leave"

Loud(t) ==
    Put(t) \/ Link(t) \/ Leave(t) \/ NextDest(t) \/ Invalidated(t) \/ Unlink(t) \/ RemovePage(t)

\* A step is quiet, or it is one of the seven that deal with a page.
LEMMA QuietOrLoud ==
    ASSUME Typed, [Next]_vars
    PROVE  Quiet \/ \E t \in Thread : Loud(t)
<1> USE DEF Typed, TypeOK, Control, ThreadOK, Begin, End, HasHolder, HasDest, TimerGoes,
      At, Goto, HolderInHand, DestInHand, Looking, InDestination,
      domains, destinations, webPages, control, found, history
<1> USE DEF Quiet, Still
<1>1. ASSUME NEW t \in Thread, Publish(t)
     PROVE  Quiet \/ \E u \in Thread : Loud(u)
  <2>1. Quiet
      BY <1>1 DEF Publish
  <2> QED
      BY <2>1
<1>2. ASSUME NEW t \in Thread, NEW p \in Page, Subscribe(t, p)
     PROVE  Quiet \/ \E u \in Thread : Loud(u)
  <2>1. Quiet
      BY <1>2 DEF Subscribe
  <2> QED
      BY <2>1
<1>3. ASSUME NEW t \in Thread, NEW p \in Page, Unsubscribe(t, p)
     PROVE  Quiet \/ \E u \in Thread : Loud(u)
  <2>1. Quiet
      BY <1>3 DEF Unsubscribe
  <2> QED
      BY <2>1
<1>4. ASSUME NEW t \in Thread, NEW p \in Page, Invalidate(t, p)
     PROVE  Quiet \/ \E u \in Thread : Loud(u)
  <2>1. Quiet
      BY <1>4 DEF Invalidate
  <2> QED
      BY <2>1
<1>5. ASSUME NEW t \in Thread, GetDomain(t)
     PROVE  Quiet \/ \E u \in Thread : Loud(u)
    BY <1>5 DEF GetDomain
<1>6. ASSUME NEW t \in Thread, MakeDomain(t)
     PROVE  Quiet \/ \E u \in Thread : Loud(u)
    BY <1>6 DEF MakeDomain
<1>7. ASSUME NEW t \in Thread, TouchDomain(t)
     PROVE  Quiet \/ \E u \in Thread : Loud(u)
    BY <1>7 DEF TouchDomain
<1>8. ASSUME NEW t \in Thread, GetDest(t)
     PROVE  Quiet \/ \E u \in Thread : Loud(u)
    BY <1>8 DEF GetDest
<1>9. ASSUME NEW t \in Thread, MakeDest(t)
     PROVE  Quiet \/ \E u \in Thread : Loud(u)
    BY <1>9 DEF MakeDest
<1>10. ASSUME NEW t \in Thread, Published(t)
      PROVE  Quiet \/ \E u \in Thread : Loud(u)
    BY <1>10 DEF Published
<1>11. ASSUME NEW t \in Thread, Reset(t)
      PROVE  Quiet \/ \E u \in Thread : Loud(u)
    BY <1>11 DEF Reset
<1>12. ASSUME NEW t \in Thread, Put(t)
      PROVE  Quiet \/ \E u \in Thread : Loud(u)
    BY <1>12 DEF Loud
<1>13. ASSUME NEW t \in Thread, AlreadyPut(t)
      PROVE  Quiet \/ \E u \in Thread : Loud(u)
    BY <1>13 DEF AlreadyPut
<1>14. ASSUME NEW t \in Thread, Link(t)
      PROVE  Quiet \/ \E u \in Thread : Loud(u)
    BY <1>14 DEF Loud
<1>15. ASSUME NEW t \in Thread, Leave(t)
      PROVE  Quiet \/ \E u \in Thread : Loud(u)
    BY <1>15 DEF Loud
<1>16. ASSUME NEW t \in Thread, NextDest(t)
      PROVE  Quiet \/ \E u \in Thread : Loud(u)
    BY <1>16 DEF Loud
<1>17. ASSUME NEW t \in Thread, Invalidated(t)
      PROVE  Quiet \/ \E u \in Thread : Loud(u)
    BY <1>17 DEF Loud
<1>18. ASSUME NEW t \in Thread, Unlink(t)
      PROVE  Quiet \/ \E u \in Thread : Loud(u)
    BY <1>18 DEF Loud
<1>19. ASSUME NEW t \in Thread, RemovePage(t)
      PROVE  Quiet \/ \E u \in Thread : Loud(u)
    BY <1>19 DEF Loud
<1>20. ASSUME Wake
      PROVE  Quiet \/ \E u \in Thread : Loud(u)
    BY <1>20 DEF Wake
<1>21. ASSUME Visit
      PROVE  Quiet \/ \E u \in Thread : Loud(u)
    BY <1>21 DEF Visit
<1>22. ASSUME TestEmpty
      PROVE  Quiet \/ \E u \in Thread : Loud(u)
    BY <1>22 DEF TestEmpty
<1>23. ASSUME Evict
      PROVE  Quiet \/ \E u \in Thread : Loud(u)
    BY <1>23 DEF Evict
<1>24. ASSUME Mark
      PROVE  Quiet \/ \E u \in Thread : Loud(u)
    BY <1>24 DEF Mark
<1>25. ASSUME TestIdle
      PROVE  Quiet \/ \E u \in Thread : Loud(u)
    BY <1>25 DEF TestIdle
<1>26. ASSUME TestHolderEmpty
      PROVE  Quiet \/ \E u \in Thread : Loud(u)
    BY <1>26 DEF TestHolderEmpty
<1>27. ASSUME EvictHolder
      PROVE  Quiet \/ \E u \in Thread : Loud(u)
    BY <1>27 DEF EvictHolder
<1>28. ASSUME MarkHolder
      PROVE  Quiet \/ \E u \in Thread : Loud(u)
    BY <1>28 DEF MarkHolder
<1>29. CASE UNCHANGED vars
    BY <1>29 DEF vars
<1> QED
    BY <1>1, <1>2, <1>3, <1>4, <1>5, <1>6, <1>7, <1>8, <1>9, <1>10, <1>11,
       <1>12, <1>13, <1>14, <1>15, <1>16, <1>17, <1>18, <1>19, <1>20, <1>21,
       <1>22, <1>23, <1>24, <1>25, <1>26, <1>27, <1>28, <1>29
       DEF Next, Timer, Step, Lookup, Register, UnRegister, Request

\* What a step that is not quiet leaves alone.
LEMMA Alone ==
    ASSUME Typed, NEW t \in Thread, Loud(t)
    PROVE  /\ \A u \in Thread : u # t => Still(u) /\ todo'[u] = todo[u]
           /\ overlapped \subseteq overlapped'
           /\ page[t] \in Page /\ pc[t] # "idle"
<1> USE DEF Typed, TypeOK, Control, ThreadOK, End, At, Goto, Still, control, found, history,
      HolderInHand, DestInHand, Looking, InDestination
<1>1. CASE Put(t)
    BY <1>1 DEF Put
<1>2. CASE Link(t)
    BY <1>2 DEF Link
<1>3. CASE Leave(t)
    BY <1>3 DEF Leave
<1>4. CASE NextDest(t)
    BY <1>4 DEF NextDest
<1>5. CASE Invalidated(t)
    BY <1>5 DEF Invalidated
<1>6. CASE Unlink(t)
    BY <1>6 DEF Unlink
<1>7. CASE RemovePage(t)
    BY <1>7, AfterRemoval DEF RemovePage
<1> QED
    BY <1>1, <1>2, <1>3, <1>4, <1>5, <1>6, <1>7 DEF Loud

\* Every step keeps NoGhost.
LEMMA NoGhostStep ==
    ASSUME Typed, Invited, Visits, NoGhost, [Next]_vars
    PROVE  NoGhost'
<1> SUFFICES ASSUME NEW d \in Object, NEW p \in pages'[d] \ overlapped'
             PROVE  live'[p] \/ Leaving(p)' \/ Removing(d, p)'
    BY DEF NoGhost
<1>p. p \in Page
    BY TypeStep DEF Typed, TypeOK
<1>a. ASSUME p \in pages[d] \ overlapped,
             live[p] => live'[p] \/ Leaving(p)',
             \A u \in Thread : op[u] = "invalidate" /\ page[u] = p => Leaving(p)' \/ Removing(d, p)',
             \A u \in Thread : At(u, "remove") /\ dest[u] = d /\ page[u] = p => Removing(d, p)'
      PROVE  live'[p] \/ Leaving(p)' \/ Removing(d, p)'
    BY <1>a DEF NoGhost, Leaving, Removing
<1>b. ASSUME NEW u \in Thread, Still(u)
      PROVE  /\ op[u] = "invalidate" /\ page[u] = p => Leaving(p)'
             /\ At(u, "remove") /\ dest[u] = d /\ page[u] = p => Removing(d, p)'
    BY <1>b DEF Still, Leaving, Removing, At
<1>1. CASE Quiet
  <2>1. \A u \in Thread : op[u] = "invalidate" \/ At(u, "remove") => Still(u)
      BY <1>1 DEF Quiet, At
  <2>2. UNCHANGED <<pages, live, overlapped>>
      BY <1>1 DEF Quiet
  <2> QED
      BY <2>1, <2>2, <1>a, <1>b
<1>2. ASSUME NEW t \in Thread, Loud(t)
      PROVE  live'[p] \/ Leaving(p)' \/ Removing(d, p)'
  <2>1. /\ \A u \in Thread : u # t => Still(u) /\ todo'[u] = todo[u]
        /\ p \notin overlapped
        /\ page[t] \in Page
      BY <1>2, Alone
  <2>2. CASE Put(t)
    <3>1. op[t] = "subscribe" /\ pc[t] = "put" /\ UNCHANGED live
          /\ (p \in pages[d] \/ (p = page[t] /\ d = dest[t]))
        BY <2>2 DEF Put, Typed, TypeOK, Control, ThreadOK, At, webPages, DestInHand, InDestination
    <3>2. CASE p = page[t]
        BY <3>1, <3>2, <2>1 DEF Invited
    <3>3. CASE p # page[t]
        BY <3>1, <3>3, <2>1, <1>a, <1>b DEF At
    <3> QED
        BY <3>2, <3>3
  <2>3. CASE Link(t)
    <3>1. op[t] = "subscribe" /\ pc[t] = "link" /\ UNCHANGED <<live, pages>>
        BY <2>3 DEF Link, Typed, Control, ThreadOK, At, destinations
    <3> QED
        BY <3>1, <2>1, <1>a, <1>b DEF At
  <2>4. CASE Leave(t)
    <3>1. /\ op[t] = "invalidate" /\ pc[t] = "leave" /\ UNCHANGED <<op, page, pages>>
          /\ live' = [live EXCEPT ![page[t]] = FALSE] /\ live \in [Page -> BOOLEAN]
        BY <2>4 DEF Leave, Typed, TypeOK, Control, ThreadOK, At, destinations
    <3>2. \A u \in Thread : op[u] = "invalidate" /\ page[u] = p => Leaving(p)'
        BY <3>1 DEF Leaving
    <3>3. live[p] => live'[p] \/ Leaving(p)'
      <4>1. CASE p = page[t]
          BY <3>1, <3>2, <4>1
      <4>2. CASE p # page[t]
          BY <3>1, <4>2, <1>p
      <4> QED
          BY <4>1, <4>2
    <3> QED
        BY <3>1, <3>2, <3>3, <2>1, <1>a, <1>b DEF At
  <2>5. CASE NextDest(t)
    <3>1. pc[t] = "next" /\ UNCHANGED <<op, page, pages, live>>
        BY <2>5 DEF NextDest, At, destinations, webPages
    <3>2. \A u \in Thread : op[u] = "invalidate" /\ page[u] = p => Leaving(p)'
        BY <3>1 DEF Leaving
    <3> QED
        BY <3>1, <3>2, <2>1, <1>a, <1>b DEF At
  <2>6. CASE Invalidated(t)
    <3>1. /\ pc[t] = "next" /\ op[t] = "invalidate" /\ todo[t] = << >>
          /\ UNCHANGED <<pages, live>>
        BY <2>6 DEF Invalidated, At, destinations
    <3>2. CASE p = page[t]
      <4>1. ToVisit(t, d)
          BY <3>1, <3>2, <2>1 DEF Visits, Visiting
      <4>2. PICK u \in Thread : At(u, "remove") /\ dest[u] = d /\ page[u] = p
          BY <3>1, <3>2, <4>1, EmptyHasNone DEF ToVisit, Removing
      <4> QED
          BY <3>1, <4>2, <2>1, <1>b DEF At
    <3>3. CASE p # page[t]
        BY <3>1, <3>3, <2>1, <1>a, <1>b DEF At
    <3> QED
        BY <3>2, <3>3
  <2>7. CASE Unlink(t)
    <3>1. pc[t] = "unlink" /\ UNCHANGED <<op, page, pages, live>>
        BY <2>7 DEF Unlink, At, destinations
    <3>2. \A u \in Thread : op[u] = "invalidate" /\ page[u] = p => Leaving(p)'
        BY <3>1 DEF Leaving
    <3> QED
        BY <3>1, <3>2, <2>1, <1>a, <1>b DEF At
  <2>8. CASE RemovePage(t)
    <3>1. /\ pc[t] = "remove" /\ UNCHANGED live
          /\ p \in pages[d] /\ ~ (dest[t] = d /\ page[t] = p)
      <4>1. UNCHANGED live
          BY <2>8 DEF RemovePage, webPages
      <4>2. p \in pages[d] /\ ~ (dest[t] = d /\ page[t] = p)
          BY <2>8 DEF RemovePage, Others, Typed, TypeOK
      <4> QED
          BY <2>8, <4>1, <4>2 DEF RemovePage, At
    <3>2. op[t] = "invalidate" /\ page[t] = p => Leaving(p)'
        BY <2>8, AfterRemoval DEF Leaving
    <3> QED
        BY <3>1, <3>2, <2>1, <1>a, <1>b
  <2> QED
      BY <1>2, <2>2, <2>3, <2>4, <2>5, <2>6, <2>7, <2>8 DEF Loud
<1> QED
    BY <1>1, <1>2, QuietOrLoud

\* Every step keeps Linked.
LEMMA LinkedStep ==
    ASSUME Typed, Visits, Linked, [Next]_vars
    PROVE  Linked'
<1> SUFFICES ASSUME NEW d \in Object, NEW p \in pages'[d] \ overlapped'
             PROVE  d \in ToSet(links'[p]) \/ Linking(d, p)' \/ Removing(d, p)'
    BY DEF Linked
<1>p. p \in Page
    BY TypeStep DEF Typed, TypeOK
<1>a. ASSUME p \in pages[d] \ overlapped,
             d \in ToSet(links[p]) => d \in ToSet(links'[p]) \/ Removing(d, p)',
             \A u \in Thread : At(u, "link") /\ dest[u] = d /\ page[u] = p =>
                d \in ToSet(links'[p]) \/ Linking(d, p)',
             \A u \in Thread : At(u, "remove") /\ dest[u] = d /\ page[u] = p => Removing(d, p)'
      PROVE  d \in ToSet(links'[p]) \/ Linking(d, p)' \/ Removing(d, p)'
    BY <1>a DEF Linked, Linking, Removing
<1>b. ASSUME NEW u \in Thread, Still(u)
      PROVE  /\ At(u, "link") /\ dest[u] = d /\ page[u] = p => Linking(d, p)'
             /\ At(u, "remove") /\ dest[u] = d /\ page[u] = p => Removing(d, p)'
    BY <1>b DEF Still, Linking, Removing, At
<1>1. CASE Quiet
  <2>1. \A u \in Thread : At(u, "link") \/ At(u, "remove") => Still(u)
      BY <1>1 DEF Quiet, At
  <2>2. UNCHANGED <<pages, links, overlapped>>
      BY <1>1 DEF Quiet
  <2> QED
      BY <2>1, <2>2, <1>a, <1>b
<1>2. ASSUME NEW t \in Thread, Loud(t)
      PROVE  d \in ToSet(links'[p]) \/ Linking(d, p)' \/ Removing(d, p)'
  <2>1. /\ \A u \in Thread : u # t => Still(u) /\ todo'[u] = todo[u]
        /\ p \notin overlapped
        /\ page[t] \in Page
      BY <1>2, Alone
  <2>2. CASE Put(t)
    <3>1. /\ pc[t] = "put" /\ UNCHANGED <<links, page, dest>> /\ pc'[t] = "link"
          /\ (p \in pages[d] \/ (p = page[t] /\ d = dest[t]))
        BY <2>2 DEF Put, Typed, TypeOK, Control, ThreadOK, At, Goto, webPages, found,
           DestInHand, InDestination
    <3>2. CASE p = page[t] /\ d = dest[t]
        BY <3>1, <3>2 DEF Linking, At
    <3>3. CASE p \in pages[d]
        BY <3>1, <3>3, <2>1, <1>a, <1>b DEF At
    <3> QED
        BY <3>1, <3>2, <3>3
  <2>3. CASE Link(t)
    <3>1. /\ pc[t] = "link" /\ UNCHANGED pages /\ dest[t] \in Object
          /\ links' = [links EXCEPT ![page[t]] = Append(@, dest[t])]
          /\ links \in [Page -> Seq(Object)]
        BY <2>3 DEF Link, Typed, TypeOK, Control, ThreadOK, At, InDestination, destinations
    <3>2. /\ d \in ToSet(links[p]) => d \in ToSet(links'[p])
          /\ p = page[t] /\ d = dest[t] => d \in ToSet(links'[p])
      <4>1. CASE p = page[t]
        <5>1. links'[p] = Append(links[p], dest[t]) /\ links[p] \in Seq(Object)
            BY <3>1, <4>1, <2>1
        <5> QED
            BY <3>1, <5>1, AppendAdds
      <4>2. CASE p # page[t]
          BY <3>1, <4>2, <1>p
      <4> QED
          BY <4>1, <4>2
    <3> QED
        BY <3>1, <3>2, <2>1, <1>a, <1>b DEF At
  <2>4. CASE Leave(t)
    <3>1. pc[t] = "leave" /\ UNCHANGED <<pages, links>>
        BY <2>4 DEF Leave, At, destinations
    <3> QED
        BY <3>1, <2>1, <1>a, <1>b DEF At
  <2>5. CASE NextDest(t)
    <3>1. pc[t] = "next" /\ UNCHANGED <<pages, links>>
        BY <2>5 DEF NextDest, At, destinations, webPages
    <3> QED
        BY <3>1, <2>1, <1>a, <1>b DEF At
  <2>6. CASE Invalidated(t)
    <3>1. /\ pc[t] = "next" /\ op[t] = "invalidate" /\ todo[t] = << >> /\ UNCHANGED pages
          /\ links' = [links EXCEPT ![page[t]] = << >>] /\ links \in [Page -> Seq(Object)]
        BY <2>6 DEF Invalidated, At, destinations, Typed, TypeOK
    <3>2. CASE p = page[t]
      <4>1. ToVisit(t, d)
          BY <3>1, <3>2, <2>1 DEF Visits, Visiting
      <4>2. PICK u \in Thread : At(u, "remove") /\ dest[u] = d /\ page[u] = p
          BY <3>1, <3>2, <4>1, EmptyHasNone DEF ToVisit, Removing
      <4> QED
          BY <3>1, <4>2, <2>1, <1>b DEF At
    <3>3. CASE p # page[t]
      <4>1. links'[p] = links[p]
          BY <3>1, <3>3, <1>p
      <4> QED
          BY <3>1, <4>1, <2>1, <1>a, <1>b DEF At
    <3> QED
        BY <3>2, <3>3
  <2>7. CASE Unlink(t)
    <3>1. /\ pc[t] = "unlink" /\ pc'[t] = "remove" /\ UNCHANGED <<page, dest, pages>>
          /\ links' = [links EXCEPT ![page[t]] = RemoveFirst(@, dest[t])]
          /\ links \in [Page -> Seq(Object)]
        BY <2>7 DEF Unlink, At, Goto, found, destinations, Typed, TypeOK
    <3>2. d \in ToSet(links[p]) => d \in ToSet(links'[p]) \/ Removing(d, p)'
      <4>1. CASE p = page[t] /\ d = dest[t]
          BY <3>1, <4>1 DEF Removing, At
      <4>2. CASE p = page[t] /\ d # dest[t]
        <5>1. links'[p] = RemoveFirst(links[p], dest[t]) /\ links[p] \in Seq(Object)
            BY <3>1, <4>2, <2>1
        <5> QED
            BY <5>1, <4>2, RemoveFirstKeeps
      <4>3. CASE p # page[t]
          BY <3>1, <4>3, <1>p
      <4> QED
          BY <4>1, <4>2, <4>3
    <3> QED
        BY <3>1, <3>2, <2>1, <1>a, <1>b DEF At
  <2>8. CASE RemovePage(t)
    <3>1. /\ pc[t] = "remove" /\ UNCHANGED links
          /\ p \in pages[d] /\ ~ (dest[t] = d /\ page[t] = p)
      <4>1. UNCHANGED links
          BY <2>8 DEF RemovePage, webPages
      <4>2. p \in pages[d] /\ ~ (dest[t] = d /\ page[t] = p)
          BY <2>8 DEF RemovePage, Others, Typed, TypeOK
      <4> QED
          BY <2>8, <4>1, <4>2 DEF RemovePage, At
    <3> QED
        BY <3>1, <2>1, <1>a, <1>b DEF At
  <2> QED
      BY <1>2, <2>2, <2>3, <2>4, <2>5, <2>6, <2>7, <2>8 DEF Loud
<1> QED
    BY <1>1, <1>2, QuietOrLoud

\* An invalidation visits every destination that its page is in.
LEMMA VisitsStep ==
    ASSUME Typed, Invited, Visits, Linked, [Next]_vars
    PROVE  Visits'
<1> SUFFICES ASSUME NEW v \in Thread, Visiting(v)'
             PROVE  /\ ~ live'[page'[v]]
                    /\ \A d \in Object : page'[v] \in pages'[d] \ overlapped' => ToVisit(v, d)'
    BY DEF Visits
<1> DEFINE Goal == /\ ~ live'[page'[v]]
                   /\ \A d \in Object : page'[v] \in pages'[d] \ overlapped' => ToVisit(v, d)'
\* v keeps its page, and what it had to visit, it still has to
<1>a. ASSUME Visiting(v), page'[v] = page[v], ~ live'[page[v]], overlapped \subseteq overlapped',
             \A d \in Object : page[v] \in pages'[d] \ overlapped' => page[v] \in pages[d],
             \A d \in Object : d \in ToSet(todo[v]) => ToVisit(v, d)',
             \A d \in Object : pc[v] = "unlink" /\ dest[v] = d => ToVisit(v, d)',
             \A d \in Object, u \in Thread :
                page[v] \in pages'[d] /\ At(u, "remove") /\ dest[u] = d /\ page[u] = page[v] =>
                    Removing(d, page[v])'
      PROVE  Goal
  <2> SUFFICES ASSUME NEW d \in Object, page'[v] \in pages'[d] \ overlapped'
               PROVE  ToVisit(v, d)'
      BY <1>a
  <2>1. page[v] \in pages[d] \ overlapped
      BY <1>a
  <2>2. ToVisit(v, d)
      BY <1>a, <2>1 DEF Visits
  <2>3. Removing(d, page[v])' => ToVisit(v, d)'
      BY <1>a DEF ToVisit, Removing
  <2> QED
      BY <1>a, <2>2, <2>3 DEF ToVisit, Removing
<1>b. ASSUME NEW u \in Thread, Still(u), NEW d, NEW p
      PROVE  At(u, "remove") /\ dest[u] = d /\ page[u] = p => Removing(d, p)'
    BY <1>b DEF Still, Removing, At
\* v did not move
<1>c. ASSUME Still(v), todo'[v] = todo[v]
      PROVE  /\ Visiting(v) /\ page'[v] = page[v]
             /\ \A d \in Object : d \in ToSet(todo[v]) => ToVisit(v, d)'
             /\ \A d \in Object : pc[v] = "unlink" /\ dest[v] = d => ToVisit(v, d)'
    BY <1>c DEF Still, Visiting, ToVisit
<1>1. CASE Quiet
  <2>1. \A u \in Thread : op[u] = "invalidate" \/ At(u, "remove") => Still(u)
      BY <1>1 DEF Quiet, At
  <2>2. UNCHANGED <<pages, live, overlapped, todo>>
      BY <1>1 DEF Quiet
  <2>3. Still(v)
      BY <1>1, <2>1 DEF Quiet, Visiting
  <2>4. ~ live[page[v]]
      BY <1>c, <2>2, <2>3 DEF Visits
  <2> QED
      BY <2>1, <2>2, <2>3, <2>4, <1>a, <1>b, <1>c
<1>2. ASSUME NEW t \in Thread, Loud(t)
      PROVE  Goal
  <2>1. /\ \A u \in Thread : u # t => Still(u) /\ todo'[u] = todo[u]
        /\ overlapped \subseteq overlapped'
        /\ page[t] \in Page
      BY <1>2, Alone
  <2>a. v # t => Still(v) /\ todo'[v] = todo[v] /\ ~ live[page[v]]
      BY <2>1, <1>c DEF Visits
  <2>2. CASE Put(t)
    <3>1. /\ pc[t] = "put" /\ op[t] = "subscribe" /\ op'[t] = "subscribe" /\ UNCHANGED live
          /\ pages' = [pages EXCEPT ![dest[t]] = @ \cup {page[t]}]
          /\ pages \in [Object -> SUBSET Page]
        BY <2>2 DEF Put, Typed, TypeOK, Control, ThreadOK, At, webPages, DestInHand
    <3>2. v # t
        BY <3>1 DEF Visiting
    <3>3. \A d \in Object : page[v] \in pages'[d] \ overlapped' => page[v] \in pages[d]
        BY <3>1, <3>2, <2>a, <2>1 DEF Invited
    <3> QED
        BY <3>1, <3>2, <3>3, <2>1, <2>a, <1>a, <1>b, <1>c DEF At
  <2>3. CASE Link(t)
    <3>1. pc[t] = "link" /\ op'[t] = "none" /\ UNCHANGED <<pages, live>>
        BY <2>3 DEF Link, At, End, destinations, Typed, TypeOK
    <3>2. v # t
        BY <3>1 DEF Visiting
    <3> QED
        BY <3>1, <3>2, <2>1, <2>a, <1>a, <1>b, <1>c DEF At
  <2>4. CASE Leave(t)
    <3>1. /\ pc[t] = "leave" /\ UNCHANGED <<pages, links, page, op, dest>>
          /\ live' = [live EXCEPT ![page[t]] = FALSE] /\ live \in [Page -> BOOLEAN]
          /\ todo'[t] = links[page[t]]
          /\ Overlaps(page[t]) => page[t] \in overlapped'
        BY <2>4 DEF Leave, At, destinations, Typed, TypeOK
    <3>2. CASE v # t
      <4>1. ~ live'[page[v]]
          BY <3>1, <3>2, <2>a
      <4> QED
          BY <3>1, <3>2, <4>1, <2>1, <2>a, <1>a, <1>b, <1>c DEF At
    <3>3. CASE v = t
      <4>1. ~ live'[page'[v]]
          BY <3>1, <3>3, <2>1
      <4>2. ASSUME NEW d \in Object, page'[v] \in pages'[d] \ overlapped'
            PROVE  ToVisit(v, d)'
        <5>1. page[t] \in pages[d] \ overlapped
            BY <3>1, <3>3, <4>2, <2>1
        <5>2. ~ Linking(d, page[t])
            BY <3>1, <3>3, <4>2 DEF Linking, Overlaps, At, Typed, Control, ThreadOK
        <5>3. CASE d \in ToSet(links[page[t]])
            BY <3>1, <3>3, <5>3 DEF ToVisit
        <5>4. CASE Removing(d, page[t])
          <6>1. Removing(d, page[t])'
              BY <3>1, <5>4, <2>1, <1>b DEF Removing, At
          <6> QED
              BY <3>1, <3>3, <6>1 DEF ToVisit, Removing
        <5> QED
            BY <5>1, <5>2, <5>3, <5>4 DEF Linked
      <4> QED
          BY <4>1, <4>2
    <3> QED
        BY <3>2, <3>3
  <2>5. CASE NextDest(t)
    <3>1. /\ pc[t] = "next" /\ op[t] = "invalidate" /\ pc'[t] = "unlink"
          /\ UNCHANGED <<op, page, pages, live>>
          /\ todo[t] # << >> /\ todo[t] \in Seq(Object)
          /\ dest'[t] = Head(todo[t]) /\ todo'[t] = Tail(todo[t])
        BY <2>5 DEF NextDest, At, Goto, destinations, webPages, Typed, TypeOK
    <3>2. CASE v # t
        BY <3>1, <3>2, <2>1, <2>a, <1>a, <1>b, <1>c DEF At
    <3>3. CASE v = t
      <4>1. Visiting(v) /\ ~ live[page[v]]
          BY <3>1, <3>3 DEF Visiting, Visits
      <4>2. \A d \in Object : d \in ToSet(todo[v]) => ToVisit(v, d)'
          BY <3>1, <3>3, HeadOrTail DEF ToVisit
      <4> QED
          BY <3>1, <3>3, <4>1, <4>2, <2>1, <1>a, <1>b DEF At
    <3> QED
        BY <3>2, <3>3
  <2>6. CASE Invalidated(t)
    <3>1. pc[t] = "next" /\ op'[t] = "none" /\ UNCHANGED <<pages, live>>
        BY <2>6 DEF Invalidated, At, End, destinations, Typed, TypeOK
    <3>2. v # t
        BY <3>1 DEF Visiting
    <3> QED
        BY <3>1, <3>2, <2>1, <2>a, <1>a, <1>b, <1>c DEF At
  <2>7. CASE Unlink(t)
    <3>1. /\ pc[t] = "unlink" /\ pc'[t] = "remove"
          /\ UNCHANGED <<op, page, dest, todo, pages, live>>
        BY <2>7 DEF Unlink, At, Goto, found, destinations, Typed, TypeOK
    <3>2. CASE v # t
        BY <3>1, <3>2, <2>1, <2>a, <1>a, <1>b, <1>c DEF At
    <3>3. CASE v = t
      <4>1. Visiting(v) /\ ~ live[page[v]]
          BY <3>1, <3>3 DEF Visiting, Visits
      <4>2. \A d \in Object : d \in ToSet(todo[v]) => ToVisit(v, d)'
          BY <3>1 DEF ToVisit
      <4>3. \A d \in Object : dest[v] = d => ToVisit(v, d)'
          BY <3>1, <3>3 DEF ToVisit, Removing, At
      <4> QED
          BY <3>1, <3>3, <4>1, <4>2, <4>3, <2>1, <1>a, <1>b DEF At
    <3> QED
        BY <3>2, <3>3
  <2>8. CASE RemovePage(t)
    <3>1. pc[t] = "remove" /\ UNCHANGED <<todo, live>>
        BY <2>8, AfterRemoval DEF webPages
    <3>2. \A d \in Object : /\ pages'[d] \subseteq pages[d]
                            /\ d = dest[t] => page[t] \notin pages'[d]
        BY <2>8 DEF RemovePage, Others, Typed, TypeOK
    <3>3. CASE v # t
        BY <3>1, <3>2, <3>3, <2>1, <2>a, <1>a, <1>b, <1>c DEF At
    <3>4. CASE v = t
      <4>1. op[t] = "invalidate" /\ UNCHANGED <<page, dest>>
        <5>1. ~ End(t)
            BY <3>4 DEF End, Visiting, Typed, TypeOK
        <5> QED
            BY <2>8, <5>1, AfterRemoval
      <4>2. Visiting(v) /\ ~ live[page[v]]
          BY <3>1, <3>4, <4>1 DEF Visiting, Visits
      <4>3. \A d \in Object : d \in ToSet(todo[v]) => ToVisit(v, d)'
          BY <3>1 DEF ToVisit
      <4> QED
          BY <3>1, <3>2, <3>4, <4>1, <4>2, <4>3, <2>1, <1>a, <1>b DEF At
    <3> QED
        BY <3>3, <3>4
  <2> QED
      BY <1>2, <2>2, <2>3, <2>4, <2>5, <2>6, <2>7, <2>8 DEF Loud
<1> QED
    BY <1>1, <1>2, QuietOrLoud

-----------------------------------------------------------------------------
\* The invariant holds at the start.
LEMMA InitInv == Init => Inv
<1> SUFFICES ASSUME Init PROVE Inv
    OBVIOUS
<1>1. Typed
    BY InitTyped
<1>2. Registers
    BY DEF Init, Registers, Kept, DestInHand, Asleep
<1>3. Domains
    BY DEF Init, Domains, HolderInHand, Asleep
<1>4. Pages
    BY DEF Init, Pages, Invited, Visits, Visiting, Linked, NoGhost
<1> QED
    BY <1>1, <1>2, <1>3, <1>4 DEF Inv

\* The inductive invariant holds in every reachable state.
THEOREM Invariance == Spec => []Inv
<1>1. Inv /\ [Next]_vars => Inv'
    BY TypeStep, ControlStep, TimerStep, CountedStep, RegistersStep, DomainsStep,
       InvitedStep, VisitsStep, LinkedStep, NoGhostStep DEF Inv, Typed, Pages
<1> QED
    BY InitInv, <1>1, PTL DEF Spec

\* A destination with pages is the one its publishers find, unless it or its
\* holder was evicted in the middle of a lookup: Destination.isValid finds a
\* page that registerPage put in time, for any number of threads and pages.
THEOREM FoundByPublishers == Spec => []NotDeaf
<1>1. Inv => NotDeaf
  <2> SUFFICES ASSUME Inv, NEW d \in Object, pages[d] # {}
               PROVE  Registered(d) \/ d \in late \/ home[d] \in lateHolders
      BY DEF NotDeaf
  <2>1. Kept(d) \/ d \in late
      BY DEF Inv, Registers
  <2>2. d # None
      BY DEF Object, None
  <2>3. Kept(d) => (home[d] = domain /\ domain # None) \/ home[d] \in lateHolders
      BY <2>2 DEF Inv, Domains, Kept, Object, None
  <2> QED
      BY <2>1, <2>3 DEF Kept, Registered
<1> QED
    BY Invariance, <1>1, PTL

\* A page in a destination has it among its own, or is being linked or removed,
\* unless it left in the middle of a registration.
THEOREM LinksKept == Spec => []Linked
<1>1. Inv => Linked
    BY DEF Inv, Pages
<1> QED
    BY Invariance, <1>1, PTL

\* A page that left its session is in no destination once its invalidation is
\* over, unless it left in the middle of a registration.
THEOREM NoGhosts == Spec => []NoGhost
<1>1. Inv => NoGhost
    BY DEF Inv, Pages
<1> QED
    BY Invariance, <1>1, PTL
=============================================================================
