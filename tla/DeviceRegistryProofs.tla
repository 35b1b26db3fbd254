------------------------ MODULE DeviceRegistryProofs ------------------------
(***************************************************************************)
(* Machine-checked proofs about DeviceRegistry, for every set of handles    *)
(* and devices, every labelling and every way to open the handles: an       *)
(* opened handle is attached only to a device it asked for; and, if no two  *)
(* handles are opened with requests that compare equal, it is registered.   *)
(***************************************************************************)
EXTENDS DeviceRegistry, FiniteSetTheorems, WellFoundedInduction, TLAPS

(***************************************************************************)
(* The first element of a list that compares equal exists and is equal.    *)
(***************************************************************************)
Less == {p \in Nat \X Nat : p[1] < p[2]}

\* The natural numbers are well ordered.
LEMMA LessWellFounded == IsWellFoundedOn(Less, Nat)
  BY NatLessThanWellFounded DEF Less, OpToRel

\* A set of indices has a least one.
LEMMA LeastIndex ==
  ASSUME NEW I, I \subseteq Nat, I # {}
  PROVE  \E i \in I : \A j \in I : i <= j
<1>1. \E i \in I : \A j \in I : ~(<<j, i>> \in Less)
  BY LessWellFounded, WFMin
<1>2. \A i, j \in I : ~(<<j, i>> \in Less) => i <= j
  BY DEF Less
<1>3. QED
  BY <1>1, <1>2

\* CList_findInList returns an element that compares equal, if there is one.
LEMMA FoundInList ==
  ASSUME NEW list, NEW same, inList(list, same)
  PROVE  findInList(list, same) \in same
<1> DEFINE I == {i \in 1 .. Len(list) : list[i] \in same}
<1>1. I \subseteq Nat /\ I # {}
  BY DEF inList
<1>2. PICK i \in I : \A j \in I : i <= j
  BY <1>1, LeastIndex
<1>3. \E k \in 1 .. Len(list) :
        list[k] \in same /\ \A j \in 1 .. Len(list) : list[j] \in same => k <= j
  BY <1>2
<1>4. QED
  BY <1>3 DEF findInList

(***************************************************************************)
(* What CList_removeFromList leaves in a list.                             *)
(***************************************************************************)
elements(list)   == {list[i] : i \in 1 .. Len(list)}
noDuplicate(list) == \A i, j \in 1 .. Len(list) : list[i] = list[j] => i = j

\* The places in I are taken one after the other, each once.
LEMMA ElementsInOrder ==
  ASSUME NEW S, NEW list \in Seq(S), NEW I, I \subseteq 1 .. Len(list)
  PROVE  /\ elementsAt(list, I) \in Seq(S)
         /\ elements(elementsAt(list, I)) = {list[i] : i \in I}
         /\ noDuplicate(list) => noDuplicate(elementsAt(list, I))
<1> DEFINE upTo(i) == {j \in I : j <= i}
           rank(i) == Cardinality(upTo(i))
           n       == Cardinality(I)
           at(k)   == CHOOSE i \in I : rank(i) = k
<1>1. Len(list) \in Nat /\ IsFiniteSet(1 .. Len(list))
  BY FS_Interval
<1>2. IsFiniteSet(I) /\ n \in Nat
  BY <1>1, FS_Subset, FS_CardinalityType
<1>3. ASSUME NEW i \in I
      PROVE  IsFiniteSet(upTo(i)) /\ rank(i) \in 1 .. n
  <2>1. upTo(i) \in SUBSET I /\ i \in upTo(i)
    BY <1>1
  <2>2. IsFiniteSet(upTo(i)) /\ rank(i) <= n /\ rank(i) \in Nat /\ rank(i) # 0
    BY <1>2, <2>1, FS_Subset, FS_CardinalityType, FS_EmptySet
  <2> QED
    BY <1>2, <2>2
<1>4. ASSUME NEW i \in I, NEW j \in I, i < j
      PROVE  rank(i) # rank(j)
  <2>1. i \in Nat /\ j \in Nat /\ \A k \in I : k \in Nat
    BY <1>1
  <2>2. upTo(i) \in SUBSET upTo(j)
    <3>1. \A k \in I : k <= i => k <= j
      BY <1>4, <2>1
    <3> QED
      BY <3>1
  <2>3. j \in upTo(j) /\ j \notin upTo(i)
    BY <1>4, <2>1
  <2>4. IsFiniteSet(upTo(j))
    BY <1>3
  <2> HIDE DEF upTo
  <2>5. upTo(i) # upTo(j)
    BY <2>3
  <2>6. Cardinality(upTo(i)) # Cardinality(upTo(j))
    BY <2>2, <2>4, <2>5, FS_Subset
  <2> QED
    BY <2>6
<1>5. \A i, j \in I : rank(i) = rank(j) => i = j
  BY <1>1, <1>4
<1>6. \A k \in 1 .. n : \E i \in I : rank(i) = k
  <2> DEFINE f == [i \in I |-> rank(i)]
  <2>1. f \in Injection(I, 1 .. n)
    BY <1>3, <1>5 DEF Injection, IsInjective
  <2>2. IsFiniteSet(1 .. n) /\ Cardinality(1 .. n) = n
    BY <1>2, FS_Interval
  <2>3. f \in Surjection(I, 1 .. n)
    BY <2>1, <2>2, FS_Injection
  <2> QED
    BY <2>3 DEF Surjection
<1>7. \A k \in 1 .. n : at(k) \in I /\ rank(at(k)) = k
  BY <1>6
<1>8. \A i \in I : at(rank(i)) = i
  BY <1>3, <1>5, <1>7
<1>9. elementsAt(list, I) = [k \in 1 .. n |-> list[at(k)]]
  BY DEF elementsAt
<1> HIDE DEF upTo, rank, n, at
<1>10. /\ elementsAt(list, I) \in Seq(S) /\ Len(elementsAt(list, I)) = n
       /\ \A k \in 1 .. n : elementsAt(list, I)[k] = list[at(k)]
  <2> DEFINE l == [k \in 1 .. n |-> list[at(k)]]
  <2>1. ASSUME NEW k \in 1 .. n PROVE list[at(k)] \in S
    <3>1. at(k) \in 1 .. Len(list)
      BY <1>7
    <3> QED
      BY <3>1
  <2>2. l \in [1 .. n -> S]
    BY <2>1
  <2>3. l \in Seq(S)
    BY <1>2, <2>2
  <2>4. DOMAIN l = 1 .. n /\ \A k \in 1 .. n : l[k] = list[at(k)]
    OBVIOUS
  <2> HIDE DEF l
  <2>5. Len(l) = n
    BY <1>2, <2>3, <2>4
  <2>6. elementsAt(list, I) = l
    BY <1>9 DEF l
  <2> QED
    BY <2>3, <2>4, <2>5, <2>6
<1>11. elements(elementsAt(list, I)) = {list[i] : i \in I}
  <2>1. ASSUME NEW i \in I PROVE list[i] \in elements(elementsAt(list, I))
    BY <1>3, <1>8, <1>10 DEF elements
  <2>2. ASSUME NEW x \in elements(elementsAt(list, I)) PROVE \E i \in I : x = list[i]
    BY <1>7, <1>10 DEF elements
  <2> QED
    BY <2>1, <2>2
<1>12. ASSUME noDuplicate(list) PROVE noDuplicate(elementsAt(list, I))
  <2> SUFFICES ASSUME NEW k \in 1 .. n, NEW l \in 1 .. n, list[at(k)] = list[at(l)]
               PROVE  k = l
    BY <1>10 DEF noDuplicate
  <2>1. at(k) = at(l)
    BY <1>7, <1>12 DEF noDuplicate
  <2> QED
    BY <1>7, <2>1
<1> QED
  BY <1>10, <1>11, <1>12

\* What is left of a list without duplicates: all but the head, if the head
\* compares equal, and otherwise all that do not compare equal.
LEMMA RemovedFromList ==
  ASSUME NEW S, NEW list \in Seq(S), noDuplicate(list), NEW same
  PROVE  /\ removeFromList(list, same) \in Seq(S) /\ noDuplicate(removeFromList(list, same))
         /\ elements(removeFromList(list, same)) =
              IF list # <<>> /\ Head(list) \in same THEN elements(list) \ {Head(list)}
                                                    ELSE elements(list) \ same
<1>1. CASE list # <<>> /\ Head(list) \in same
  <2>1. /\ removeFromList(list, same) = Tail(list)
        /\ Tail(list) \in Seq(S) /\ Len(Tail(list)) = Len(list) - 1 /\ Len(list) \in Nat \ {0}
        /\ \A i \in 1 .. Len(Tail(list)) : Tail(list)[i] = list[i + 1]
        /\ Head(list) = list[1]
    BY <1>1 DEF removeFromList
  <2>2. noDuplicate(Tail(list))
    <3> SUFFICES ASSUME NEW i \in 1 .. Len(Tail(list)), NEW j \in 1 .. Len(Tail(list)),
                        Tail(list)[i] = Tail(list)[j]
                 PROVE  i = j
      BY DEF noDuplicate
    <3>1. i + 1 \in 1 .. Len(list) /\ j + 1 \in 1 .. Len(list) /\ list[i + 1] = list[j + 1]
      BY <2>1
    <3>2. i + 1 = j + 1
      BY <3>1 DEF noDuplicate
    <3> QED
      BY <3>2
  <2>3. ASSUME NEW x \in elements(list), x # Head(list) PROVE x \in elements(Tail(list))
    <3>1. PICK i \in 1 .. Len(list) : x = list[i]
      BY DEF elements
    <3>2. i - 1 \in 1 .. Len(Tail(list)) /\ Tail(list)[i - 1] = x
      BY <2>1, <2>3, <3>1
    <3> QED
      BY <3>2 DEF elements
  <2>4. ASSUME NEW x \in elements(Tail(list)) PROVE x \in elements(list) \ {Head(list)}
    <3>1. PICK i \in 1 .. Len(Tail(list)) : x = Tail(list)[i]
      BY DEF elements
    <3>2. i + 1 \in 1 .. Len(list) /\ 1 \in 1 .. Len(list) /\ i + 1 # 1 /\ x = list[i + 1]
      BY <2>1, <3>1
    <3> QED
      BY <2>1, <3>2 DEF elements, noDuplicate
  <2> QED
    BY <1>1, <2>1, <2>2, <2>3, <2>4
<1>2. CASE ~(list # <<>> /\ Head(list) \in same)
  <2> DEFINE I == {i \in 1 .. Len(list) : list[i] \notin same}
  <2>1. removeFromList(list, same) = elementsAt(list, I)
    BY <1>2 DEF removeFromList
  <2>2. {list[i] : i \in I} = elements(list) \ same
    BY DEF elements
  <2>3. I \subseteq 1 .. Len(list)
    OBVIOUS
  <2> HIDE DEF I
  <2> QED
    BY <1>2, <2>1, <2>2, <2>3, ElementsInOrder
<1> QED
  BY <1>1, <1>2

\* findActiveDevice's choice is open, waits, and asks for d or for any device.
LEMMA MatchWaits ==
  ASSUME NEW d, isWanted(d)
  PROVE  match(d) \in wantsIt(d) \cup wantsAny
<1>1. CASE inList(ActiveDevices, wantsIt(d))
  BY <1>1, FoundInList DEF match
<1>2. CASE ~inList(ActiveDevices, wantsIt(d))
  <2>1. inList(ActiveDevices, wantsAny)
    BY <1>2 DEF isWanted
  <2>2. QED
    BY <1>2, <2>1, FoundInList DEF match
<1>3. QED
  BY <1>1, <1>2

(***************************************************************************)
(* Each operation preserves RequestInv.                                    *)
(***************************************************************************)
\* CPhidget_open and CPhidget_openLabel.
LEMMA OpenKeeps ==
  ASSUME RequestInv, NEW h \in Handles, Open(h)
  PROVE  RequestInv'
<1> USE RequestsAssumption DEF RequestInv
<1>1. PICK r \in Requests[h] :
        /\ request' = [request EXCEPT ![h] = r]
        /\ phid' = [phid EXCEPT ![h].mode = r.mode,
                      ![h].serial = IF r.mode = "label" THEN @ ELSE r.serial,
                      ![h].label = IF r.mode = "label" THEN r.label ELSE @]
  BY DEF Open
<1>2. /\ h \notin opened /\ opened' = opened \cup {h}
      /\ UNCHANGED device
  BY DEF Open
<1>3. r \in Request
  OBVIOUS
<1>4. HandlesOK'
  <2> DEFINE p == [phid[h] EXCEPT
                     !.mode = r.mode,
                     !.serial = IF r.mode = "label" THEN @ ELSE r.serial,
                     !.label = IF r.mode = "label" THEN r.label ELSE @]
  <2>1. p \in PhidType
    BY <1>3 DEF HandlesOK, PhidType, Request
  <2>2. phid' = [phid EXCEPT ![h] = p]
    BY <1>1 DEF HandlesOK
  <2> HIDE DEF p
  <2>3. phid' \in [Handles -> PhidType]
    BY <2>1, <2>2 DEF HandlesOK
  <2>4. request' \in [Handles -> Request]
    BY <1>1, <1>3 DEF HandlesOK
  <2>5. QED
    BY <1>2, <2>3, <2>4 DEF HandlesOK
<1>5. KeepsRequest'
  BY <1>1, <1>2, <1>3 DEF KeepsRequest, HandlesOK, PhidType, Request
<1>6. AttachedIsOpened'
  BY <1>2 DEF AttachedIsOpened, attached
<1>7. RequestHonoured'
  BY <1>1, <1>2 DEF RequestHonoured, AttachedIsOpened, HandlesOK, PhidType, attached
<1>8. QED
  BY <1>4, <1>5, <1>6, <1>7

\* CPhidget_close.
LEMMA CloseKeeps ==
  ASSUME RequestInv, NEW h \in Handles, Close(h)
  PROVE  RequestInv'
<1> USE DEF RequestInv
<1>1. /\ device' = [device EXCEPT ![h] = NoDevice]
      /\ phid' = [phid EXCEPT ![h] = reset(@)]
      /\ opened' = opened \ {h}
      /\ UNCHANGED request
  BY DEF Close
<1>2. HandlesOK'
  BY <1>1 DEF HandlesOK, PhidType, reset, forget
<1>3. KeepsRequest'
  BY <1>1 DEF KeepsRequest, HandlesOK, PhidType
<1>4. AttachedIsOpened'
  BY <1>1 DEF AttachedIsOpened, attached, HandlesOK
<1>5. RequestHonoured'
  BY <1>1 DEF RequestHonoured, HandlesOK, attached
<1>6. QED
  BY <1>2, <1>3, <1>4, <1>5

\* findActiveDevice, in the poll and after it.
LEMMA FindKeeps ==
  ASSUME RequestInv, NEW d \in Devices, findActiveDevice(d),
         UNCHANGED <<opened, request>>
  PROVE  RequestInv'
<1> USE NamesAssumption, LabelAssumption DEF RequestInv
<1>1. CASE isWanted(d) /\ d \in present /\ ~claimed(d)
  <2> DEFINE h == match(d)
  <2>1. h \in wantsIt(d) \cup wantsAny
    BY <1>1, MatchWaits
  <2>2. /\ device' = [device EXCEPT ![h] = d]
        /\ phid' = [phid EXCEPT
             ![h].mode = IF @ = "any" THEN "anyAttached" ELSE @,
             ![h].serial = d, ![h].label = LabelOf[d]]
    BY <1>1 DEF findActiveDevice
  <2>3. h \in opened /\ h \in Handles
    BY <2>1 DEF wantsIt, wantsAny, HandlesOK
  <2>4. \/ phid[h].mode = "serial" /\ phid[h].serial = d
        \/ phid[h].mode = "label" /\ phid[h].label = LabelOf[d]
        \/ phid[h].mode = "any"
    BY <2>1 DEF wantsIt, wantsAny, specific
  <2> HIDE DEF h
  <2>5. HandlesOK'
    <3> DEFINE p == [phid[h] EXCEPT
                       !.mode = IF @ = "any" THEN "anyAttached" ELSE @,
                       !.serial = d, !.label = LabelOf[d]]
    <3>1. p \in PhidType
      BY <2>3, ZenonT(40) DEF HandlesOK, PhidType
    <3>2. phid' = [phid EXCEPT ![h] = p]
      BY <2>2, <2>3 DEF HandlesOK
    <3> HIDE DEF p
    <3>3. phid' \in [Handles -> PhidType]
      BY <2>3, <3>1, <3>2 DEF HandlesOK
    <3>4. device' \in [Handles -> Devices \cup {NoDevice}]
      BY <2>2, <2>3 DEF HandlesOK
    <3>5. QED
      BY <2>3, <3>3, <3>4 DEF HandlesOK
  <2>6. KeepsRequest'
    BY <2>2, <2>3, <2>4 DEF KeepsRequest, HandlesOK, PhidType
  <2>7. AttachedIsOpened'
    BY <2>2, <2>3 DEF AttachedIsOpened, attached, HandlesOK
  <2>8. RequestHonoured'
    BY <2>2, <2>3, <2>4 DEF RequestHonoured, KeepsRequest, HandlesOK, PhidType, attached
  <2>9. QED
    BY <2>5, <2>6, <2>7, <2>8
<1>2. CASE ~(isWanted(d) /\ d \in present /\ ~claimed(d))
  <2>1. /\ UNCHANGED device
        /\ phid' = [h \in Handles |->
             IF registered(h) /\ h \in wantsIt(d) \cup wantsAny
             THEN tried(phid[h], d) ELSE phid[h]]
    BY <1>2 DEF findActiveDevice
  <2>2. \A h \in Handles : \/ phid'[h] = phid[h]
                           \/ /\ phid'[h] = tried(phid[h], d)
                              /\ \/ phid[h].mode = "any"
                                 \/ phid[h].mode = "label"
                                 \/ phid[h].mode = "serial" /\ phid[h].serial = d
    BY <2>1 DEF wantsIt, wantsAny, specific
  <2>3. HandlesOK'
    BY <2>1, <2>2 DEF HandlesOK, PhidType, tried
  <2>4. KeepsRequest'
    BY <2>1, <2>2 DEF KeepsRequest, HandlesOK, PhidType, tried
  <2>5. AttachedIsOpened' /\ RequestHonoured'
    BY <2>1 DEF AttachedIsOpened, RequestHonoured, attached
  <2>6. QED
    BY <2>3, <2>4, <2>5
<1>3. QED
  BY <1>1, <1>2

\* CPhidgetDetachEvent.
LEMMA DetachKeeps ==
  ASSUME RequestInv, NEW d \in Devices, detachEvent(d)
  PROVE  RequestInv'
<1> USE DEF RequestInv
<1>1. UNCHANGED <<opened, request>>
  BY DEF detachEvent
<1>2. CASE inList(ActiveDevices, detachesFrom(d))
  <2>1. PICK h : /\ device' = [device EXCEPT ![h] = NoDevice]
                 /\ phid' = [phid EXCEPT ![h] = forget(@)]
    BY <1>2 DEF detachEvent
  <2>2. HandlesOK'
    BY <1>1, <2>1 DEF HandlesOK, PhidType, forget
  <2>3. KeepsRequest'
    BY <1>1, <2>1 DEF KeepsRequest, HandlesOK, PhidType, forget
  <2>4. AttachedIsOpened' /\ RequestHonoured'
    BY <1>1, <2>1 DEF AttachedIsOpened, RequestHonoured, attached, HandlesOK
  <2>5. QED
    BY <2>2, <2>3, <2>4
<1>3. CASE ~inList(ActiveDevices, detachesFrom(d))
  <2>1. UNCHANGED <<device, phid>>
    BY <1>3 DEF detachEvent
  <2>2. QED
    BY <1>1, <2>1 DEF HandlesOK, KeepsRequest, AttachedIsOpened,
                      RequestHonoured, attached
<1>4. QED
  BY <1>2, <1>3

(***************************************************************************)
(* The theorems.                                                           *)
(***************************************************************************)
\* No handle is open at the start.
LEMMA InitRequest == Init => RequestInv
  BY NamesAssumption
     DEF Init, RequestInv, HandlesOK, PhidType, KeepsRequest, AttachedIsOpened,
         RequestHonoured, attached, anything, Request

\* Every step of the users, the central thread, the bus and the read threads
\* preserves the invariant.
LEMMA NextRequest == RequestInv /\ [Next]_vars => RequestInv'
<1> SUFFICES ASSUME RequestInv, [Next]_vars PROVE RequestInv'
  OBVIOUS
<1>1. ASSUME UNCHANGED <<phid, opened, device, request>> PROVE RequestInv'
  BY <1>1 DEF RequestInv, HandlesOK, KeepsRequest, AttachedIsOpened,
              RequestHonoured, attached
<1>2. ASSUME NEW h \in Handles, Open(h) \/ Close(h) \/ ReportError(h)
      PROVE  RequestInv'
  <2>1. CASE Open(h)
    BY <2>1, OpenKeeps
  <2>2. CASE Close(h)
    BY <2>2, CloseKeeps
  <2>3. CASE ReportError(h)
    BY <2>3, <1>1 DEF ReportError
  <2>4. QED
    BY <1>2, <2>1, <2>2, <2>3
<1>3. ASSUME NEW d \in Devices, Central(d) \/ Plug(d) \/ Pull(d)
      PROVE  RequestInv'
  <2>1. CASE PollAttach(d) \/ FindActiveDevice(d)
    BY <2>1, FindKeeps DEF PollAttach, FindActiveDevice
  <2>2. CASE PollDetach(d) \/ PollError(d)
    BY <2>2, DetachKeeps DEF PollDetach, PollError
  <2>3. CASE Plug(d) \/ Pull(d)
    BY <2>3, <1>1 DEF Plug, Pull
  <2>4. QED
    BY <1>3, <2>1, <2>2, <2>3 DEF Central
<1>4. CASE UNCHANGED vars
  BY <1>4, <1>1 DEF vars
<1>5. QED
  BY <1>2, <1>3, <1>4 DEF Next

\* While a handle is open it keeps what it was opened with, and it is attached
\* only while it is open (CPhidget_open, attachActiveDevice, CPhidget_close).
THEOREM RequestInvariance == Spec => []RequestInv
  BY InitRequest, NextRequest, PTL DEF Spec

\* findActiveDevice attaches no handle to a device it did not ask for, however
\* opens, closes, errors, plugs and polls follow each other.
THEOREM Honoured == Spec => []RequestHonoured
<1>1. RequestInv => RequestHonoured
  BY DEF RequestInv
<1>2. QED
  BY <1>1, RequestInvariance, PTL

\* findActiveDevice gives a handle opened with any no device that a registered
\* handle waits for.
LEMMA FindSpecificFirst ==
  ASSUME RequestInv, NEW d \in Devices, findActiveDevice(d),
         NEW h \in Handles, NEW e \in Devices,
         device[h] # e, device'[h] = e, request[h].mode = "any",
         NEW g \in opened, registered(g), ~attached(g), specific(g, e)
  PROVE  FALSE
<1> USE DEF RequestInv
<1>1. isWanted(d) /\ device' = [device EXCEPT ![match(d)] = d]
  BY DEF findActiveDevice
<1>2. h = match(d) /\ e = d
  BY <1>1 DEF HandlesOK
<1>3. inList(ActiveDevices, wantsIt(d))
  BY <1>2 DEF registered, inList, sameHandle, wantsIt
<1>4. h \in wantsIt(d)
  BY <1>2, <1>3, FoundInList DEF match
<1>5. h \in opened /\ phid[h].mode \in {"serial", "label"}
  BY <1>4 DEF wantsIt, specific
<1>6. QED
  BY <1>5 DEF KeepsRequest

\* A step that attaches a handle is one of findActiveDevice's.
LEMMA AttachedByFind ==
  ASSUME RequestInv, [Next]_vars, NEW h \in Handles, NEW e \in Devices,
         device[h] # e, device'[h] = e
  PROVE  \E d \in Devices : findActiveDevice(d)
<1> USE NamesAssumption DEF RequestInv
<1>1. ASSUME NEW k \in Handles, Open(k) \/ Close(k) \/ ReportError(k)
      PROVE  FALSE
  BY <1>1 DEF Open, Close, ReportError, HandlesOK
<1>2. ASSUME NEW d \in Devices, detachEvent(d) PROVE FALSE
  <2>1. \/ UNCHANGED device
        \/ \E k : device' = [device EXCEPT ![k] = NoDevice]
    BY <1>2 DEF detachEvent
  <2>2. QED
    BY <2>1 DEF HandlesOK
<1>3. ASSUME NEW d \in Devices, Plug(d) \/ Pull(d) PROVE FALSE
  BY <1>3 DEF Plug, Pull
<1>4. CASE UNCHANGED vars
  BY <1>4 DEF vars
<1>5. QED
  BY <1>1, <1>2, <1>3, <1>4
     DEF Next, Central, PollAttach, FindActiveDevice, PollDetach, PollError

\* "First search for an active device that matches this specific attached
\* device" (cphidget.c:1192) in every step of every behaviour.
THEOREM SpecificBeforeAny == Spec => SpecificFirst
<1>1. ASSUME RequestInv, [Next]_vars
      PROVE  \A h \in Handles, d \in Devices :
               device[h] # d /\ device'[h] = d /\ request[h].mode = "any" =>
                 ~\E g \in opened : registered(g) /\ ~attached(g) /\ specific(g, d)
  BY <1>1, AttachedByFind, FindSpecificFirst
<1>2. QED
  BY <1>1, RequestInvariance, PTL DEF Spec, SpecificFirst

(***************************************************************************)
(* The lists and the addresses keep their types, for any requests.         *)
(***************************************************************************)
\* The handles in the list.
LEMMA Registered == \A h : registered(h) <=> h \in elements(ActiveDevices)
  BY DEF registered, inList, sameHandle, elements

\* What an open appends to the list.
LEMMA AddedToList ==
  ASSUME NEW S, NEW list \in Seq(S), noDuplicate(list), NEW x \in S, NEW same
  PROVE  LET l == addToList(list, x, same)
         IN /\ l \in Seq(S)
            /\ x \in same \/ x \notin elements(list) => noDuplicate(l)
            /\ elements(l) = IF inList(list, same) THEN elements(list)
                                                   ELSE elements(list) \cup {x}
<1>1. x \in same /\ ~inList(list, same) => x \notin elements(list)
  BY DEF inList, elements
<1>2. CASE inList(list, same)
  BY <1>1, <1>2 DEF addToList
<1>3. CASE ~inList(list, same)
  <2>1. /\ addToList(list, x, same) = Append(list, x) /\ Append(list, x) \in Seq(S)
        /\ Len(Append(list, x)) = Len(list) + 1 /\ Len(list) \in Nat
        /\ \A i \in 1 .. Len(list) : Append(list, x)[i] = list[i]
        /\ Append(list, x)[Len(list) + 1] = x
    BY <1>3 DEF addToList
  <2>2. x \notin elements(list) => noDuplicate(Append(list, x))
    BY <2>1 DEF elements, noDuplicate
  <2>3. elements(Append(list, x)) = elements(list) \cup {x}
    <3>1. \A i \in 1 .. Len(Append(list, x)) : i \in 1 .. Len(list) \/ i = Len(list) + 1
      BY <2>1
    <3>2. \A i \in 1 .. Len(list) : i \in 1 .. Len(Append(list, x))
      BY <2>1
    <3>3. Len(list) + 1 \in 1 .. Len(Append(list, x))
      BY <2>1
    <3> QED
      BY <2>1, <3>1, <3>2, <3>3 DEF elements
  <2> QED
    BY <1>1, <1>3, <2>1, <2>2, <2>3
<1> QED
  BY <1>2, <1>3

\* The lists and the bus, by themselves, for any requests.
ListsOK ==
  /\ usbError \subseteq Handles
  /\ usedAddress \in [Handles -> 0 .. MaxAddress]
  /\ ActiveDevices \in Seq(Handles) /\ noDuplicate(ActiveDevices)
  /\ AttachedDevices \subseteq Devices
  /\ address \in [Devices -> 0 .. MaxAddress]
  /\ plugs \in [Devices -> 0 .. MaxAddress]

\* Nothing is listed, plugged in or claimed at the start.
LEMMA InitLists == Init => ListsOK
<1> SUFFICES ASSUME Init PROVE ListsOK
  OBVIOUS
<1>1. ActiveDevices \in Seq(Handles) /\ Len(ActiveDevices) = 0
  BY DEF Init
<1>2. noDuplicate(ActiveDevices)
  BY <1>1 DEF noDuplicate
<1> QED
  BY <1>1, <1>2, BoundsAssumption DEF Init, ListsOK

\* What the operations do to the lists.
LEMMA NextLists == RequestInv /\ ListsOK /\ [Next]_vars => ListsOK'
<1> SUFFICES ASSUME RequestInv, ListsOK, [Next]_vars PROVE ListsOK'
  OBVIOUS
<1> USE BoundsAssumption DEF ListsOK
<1>1. ASSUME UNCHANGED <<usbError, usedAddress, ActiveDevices, AttachedDevices, bus>>
      PROVE  ListsOK'
  BY <1>1 DEF bus
<1>2. ASSUME NEW h \in Handles, Open(h) PROVE ListsOK'
  <2>1. PICK r \in Requests[h] :
          ActiveDevices' = addToList(ActiveDevices, h,
                             IF r.mode = "any" THEN sameHandle(h) ELSE areEqual(h)')
    BY <1>2 DEF Open
  <2>2. h \in IF r.mode = "any" THEN sameHandle(h) ELSE areEqual(h)'
    BY DEF sameHandle, areEqual, similar
  <2>3. ActiveDevices' \in Seq(Handles) /\ noDuplicate(ActiveDevices')
    BY <2>1, <2>2, AddedToList
  <2> QED
    BY <1>2, <2>3 DEF Open, bus
<1>3. ASSUME NEW h \in Handles, Close(h) PROVE ListsOK'
  <2>1. ActiveDevices' \in Seq(Handles) /\ noDuplicate(ActiveDevices')
    BY <1>3, RemovedFromList DEF Close
  <2>2. usedAddress' \in [Handles -> 0 .. MaxAddress]
    BY <1>3 DEF Close
  <2>3. AttachedDevices' \subseteq Devices
    BY <1>3 DEF Close
  <2> QED
    BY <1>3, <2>1, <2>2, <2>3 DEF Close, bus
<1>4. ASSUME NEW h \in Handles, ReportError(h) PROVE ListsOK'
  BY <1>4 DEF ReportError, bus
<1>5. ASSUME NEW d \in Devices, findActiveDevice(d)
      PROVE  usedAddress' \in [Handles -> 0 .. MaxAddress]
  BY <1>5 DEF findActiveDevice
<1>6. ASSUME NEW d \in Devices, PollAttach(d) \/ FindActiveDevice(d) PROVE ListsOK'
  BY <1>5, <1>6 DEF PollAttach, FindActiveDevice, bus
<1>7. ASSUME NEW d \in Devices, detachEvent(d) PROVE ListsOK'
  <2>1. usedAddress' \in [Handles -> 0 .. MaxAddress] /\ usbError' \subseteq usbError
    BY <1>7 DEF detachEvent
  <2> QED
    BY <1>7, <2>1 DEF detachEvent, bus
<1>8. ASSUME NEW d \in Devices, Plug(d) \/ Pull(d) PROVE ListsOK'
  <2>1. address' \in [Devices -> 0 .. MaxAddress] /\ plugs' \in [Devices -> 0 .. MaxAddress]
    <3>1. CASE Plug(d)
      <4>1. plugs[d] + 1 \in 0 .. MaxAddress
        BY <3>1 DEF Plug
      <4> QED
        BY <3>1, <4>1 DEF Plug
    <3>2. CASE Pull(d)
      BY <3>2 DEF Pull
    <3> QED
      BY <1>8, <3>1, <3>2
  <2> QED
    BY <1>8, <2>1 DEF Plug, Pull
<1>9. CASE UNCHANGED vars
  BY <1>1, <1>9 DEF vars, bus
<1> QED
  BY <1>2, <1>3, <1>4, <1>6, <1>7, <1>8, <1>9
     DEF Next, Central, PollDetach, PollError

\* The handles' fields, the lists and the bus keep their types, and no handle is
\* listed twice in ActiveDevices, although a handle that is closed may stay there
\* and be opened again.
THEOREM TypeCorrect == Spec => []TypeOK
<1>1. Spec => []ListsOK
  BY InitLists, NextLists, RequestInvariance, PTL DEF Spec
<1>2. RequestInv /\ ListsOK => TypeOK
  BY DEF RequestInv, ListsOK, TypeOK, noDuplicate
<1> QED
  BY <1>1, <1>2, RequestInvariance, PTL

(***************************************************************************)
(* Who is registered, when no two requests compare equal.                  *)
(***************************************************************************)
\* No two handles are ever opened with requests that CPhidget_areEqual takes for
\* the same device: no handle is opened with "any" beside another one.
Distinct ==
  \A g, h \in Handles : g # h =>
    \A q \in Requests[g], r \in Requests[h] : ~similar(q, r)

\* An opened handle was opened with one of its requests, and the handles in
\* ActiveDevices are the opened ones.
Enlisted ==
  /\ \A h \in opened : request[h] \in Requests[h]
  /\ elements(ActiveDevices) = opened

\* So two opened handles never compare equal, whatever they are attached to.
LEMMA OpenedDiffer ==
  ASSUME Distinct, RequestInv, Enlisted, NEW h \in opened
  PROVE  areEqual(h) \cap opened = {h}
<1>1. h \in Handles /\ h \in areEqual(h)
  BY DEF RequestInv, HandlesOK, areEqual, similar
<1>2. ASSUME NEW g \in opened, g # h PROVE ~similar(phid[h], phid[g])
  <2>1. g \in Handles /\ ~similar(request[h], request[g])
    BY <1>1, <1>2 DEF Distinct, Enlisted, RequestInv, HandlesOK
  <2>2. request[g] \in Request /\ request[h] \in Request
    BY <1>1, <2>1 DEF RequestInv, HandlesOK
  <2>3. request[g].mode \in {"serial", "label"} /\ request[h].mode \in {"serial", "label"}
    BY <2>1, <2>2 DEF similar, Request
  <2>4. /\ phid[g].mode = request[g].mode /\ phid[h].mode = request[h].mode
        /\ request[g].mode = "serial" => phid[g].serial = request[g].serial
        /\ request[h].mode = "serial" => phid[h].serial = request[h].serial
        /\ request[g].mode = "label" => phid[g].label = request[g].label
        /\ request[h].mode = "label" => phid[h].label = request[h].label
    BY <2>3 DEF RequestInv, KeepsRequest
  <2> QED
    BY <2>1, <2>3, <2>4 DEF similar
<1> QED
  BY <1>1, <1>2 DEF areEqual

\* CPhidget_open registers the handle: none that is opened compares equal.
LEMMA OpenEnlists ==
  ASSUME Distinct, RequestInv, ListsOK, Enlisted, NEW h \in Handles, Open(h)
  PROVE  Enlisted'
<1>1. PICK r \in Requests[h] :
        /\ request' = [request EXCEPT ![h] = r]
        /\ ActiveDevices' = addToList(ActiveDevices, h,
                              IF r.mode = "any" THEN sameHandle(h) ELSE areEqual(h)')
  BY DEF Open
<1>2. h \notin opened /\ opened' = opened \cup {h}
  BY DEF Open
<1>3. \A g \in opened' : request'[g] \in Requests[g]
  BY <1>1, <1>2 DEF Enlisted, RequestInv, HandlesOK
<1>4. ASSUME NEW g \in opened, similar(phid'[h], phid'[g]), r.mode # "any"
      PROVE  FALSE
  <2>1. RequestInv'
    BY OpenKeeps
  <2>2. g \in Handles /\ g # h /\ g \in opened' /\ h \in opened'
    BY <1>2 DEF RequestInv, HandlesOK
  <2>3. ~similar(request'[h], request'[g])
    BY <1>3, <2>2 DEF Distinct
  <2>4. request'[g] \in Request /\ request'[h] \in Request
    BY <2>1, <2>2 DEF RequestInv, HandlesOK
  <2>5. request'[g].mode \in {"serial", "label"} /\ request'[h].mode \in {"serial", "label"}
    BY <2>3, <2>4 DEF similar, Request
  <2>6. /\ phid'[g].mode = request'[g].mode /\ phid'[h].mode = request'[h].mode
        /\ request'[g].mode = "serial" => phid'[g].serial = request'[g].serial
        /\ request'[h].mode = "serial" => phid'[h].serial = request'[h].serial
        /\ request'[g].mode = "label" => phid'[g].label = request'[g].label
        /\ request'[h].mode = "label" => phid'[h].label = request'[h].label
    BY <2>1, <2>2, <2>5 DEF RequestInv, KeepsRequest
  <2> QED
    BY <1>4, <2>3, <2>5, <2>6 DEF similar
<1>5. opened \cap (IF r.mode = "any" THEN sameHandle(h) ELSE areEqual(h)') = {}
  BY <1>2, <1>4 DEF sameHandle, areEqual
<1>6. elements(ActiveDevices') = elements(ActiveDevices) \cup {h}
  <2> DEFINE same == IF r.mode = "any" THEN sameHandle(h) ELSE areEqual(h)'
  <2>1. ActiveDevices' = addToList(ActiveDevices, h, same)
    BY <1>1
  <2>2. ~inList(ActiveDevices, same)
    BY <1>5 DEF Enlisted, elements, inList
  <2>3. ActiveDevices \in Seq(Handles) /\ noDuplicate(ActiveDevices)
    BY DEF ListsOK
  <2> HIDE DEF same
  <2>4. elements(addToList(ActiveDevices, h, same)) = elements(ActiveDevices) \cup {h}
    BY <2>2, <2>3, AddedToList
  <2> QED
    BY <2>1, <2>4
<1> QED
  BY <1>2, <1>3, <1>6 DEF Enlisted, elements

\* CPhidget_close takes the handle, and no other opened one, off the list.
LEMMA CloseEnlists ==
  ASSUME Distinct, RequestInv, ListsOK, Enlisted, NEW h \in Handles, Close(h)
  PROVE  Enlisted'
<1>1. /\ h \in opened /\ opened' = opened \ {h} /\ UNCHANGED request
      /\ ActiveDevices' = removeFromList(ActiveDevices, areEqual(h))
  BY DEF Close
<1>2. areEqual(h) \cap opened = {h}
  BY <1>1, OpenedDiffer
<1>3. ASSUME ActiveDevices # <<>> PROVE Head(ActiveDevices) \in elements(ActiveDevices)
  <2>1. Head(ActiveDevices) = ActiveDevices[1] /\ 1 \in 1 .. Len(ActiveDevices)
    BY <1>3 DEF ListsOK
  <2> QED
    BY <2>1 DEF elements
<1>4. elements(ActiveDevices') = opened \ {h}
  BY <1>1, <1>2, <1>3, RemovedFromList DEF ListsOK, Enlisted
<1> QED
  BY <1>1, <1>4 DEF Enlisted, elements

\* No other step touches the list, or opens or closes a handle.
LEMMA NextEnlisted ==
  ASSUME Distinct, RequestInv, ListsOK, Enlisted, [Next]_vars
  PROVE  Enlisted'
<1>1. ASSUME UNCHANGED <<opened, request, ActiveDevices>> PROVE Enlisted'
  BY <1>1 DEF Enlisted, elements
<1>2. ASSUME NEW h \in Handles, Open(h) \/ Close(h) \/ ReportError(h) PROVE Enlisted'
  <2>1. CASE Open(h)
    BY <2>1, OpenEnlists
  <2>2. CASE Close(h)
    BY <2>2, CloseEnlists
  <2>3. CASE ReportError(h)
    BY <2>3, <1>1 DEF ReportError
  <2> QED
    BY <1>2, <2>1, <2>2, <2>3
<1>3. ASSUME NEW d \in Devices, Central(d) \/ Plug(d) \/ Pull(d) PROVE Enlisted'
  BY <1>1, <1>3 DEF Central, PollAttach, FindActiveDevice, PollDetach, PollError,
                    detachEvent, Plug, Pull
<1>4. CASE UNCHANGED vars
  BY <1>1, <1>4 DEF vars
<1> QED
  BY <1>2, <1>3, <1>4 DEF Next

\* With distinct requests CPhidget_open registers every handle it opens, and
\* CPhidget_close takes off the list exactly the handle it closes: a handle is
\* polled for by the central thread from its open to its close.
THEOREM RegisteredCorrect ==
  ASSUME Distinct
  PROVE  Spec => []RegisteredWhileOpened
<1>1. Init => Enlisted
  <2> SUFFICES ASSUME Init PROVE Enlisted
    OBVIOUS
  <2>1. Len(ActiveDevices) = 0 /\ opened = {}
    BY DEF Init
  <2> QED
    BY <2>1 DEF Enlisted, elements
<1>2. RequestInv /\ ListsOK /\ Enlisted /\ [Next]_vars => Enlisted'
  BY NextEnlisted
<1>3. Spec => []ListsOK
  BY InitLists, NextLists, RequestInvariance, PTL DEF Spec
<1>4. Enlisted => RegisteredWhileOpened
  BY Registered DEF Enlisted, RegisteredWhileOpened
<1> QED
  BY <1>1, <1>2, <1>3, <1>4, RequestInvariance, PTL DEF Spec
=============================================================================
