------------------------ MODULE CentralThreadProofs ------------------------
(***************************************************************************)
(* Machine-checked proofs about CentralThread, for any users, handles,      *)
(* plugged devices and number of central threads at the same time.         *)
(***************************************************************************)
EXTENDS CentralThread, FiniteSetTheorems, TLAPS

USE PluggableAssumption, NamesAssumption, BoundsAssumption

\* Users, central threads and "nobody" are three different kinds of owners.
LEMMA DistinctOwners ==
  /\ NoThread \notin Users /\ NoThread \notin Threads
  /\ \A u \in Users, t \in Threads : u # t
  BY NamesAssumption

\* A handle is a device or a manager.
LEMMA Kinds ==
  /\ Devices \subseteq Handles /\ Managers \subseteq Handles
  /\ Pluggable \subseteq Devices /\ Pluggable \subseteq Handles
  /\ \A h \in Handles : h \in Devices <=> h \notin Managers
  BY PluggableAssumption DEF Devices

\* The invariant holds at the start.
LEMMA InitInvariant == Init => IInv
<1> SUFFICES ASSUME Init PROVE IInv
  OBVIOUS
<1>1. TypeOK
  <2>1. openCloseLock \in [Handles -> Users \cup Threads \cup {NoThread}]
    BY DEF Init
  <2>2. created \in 0 .. MaxThreads /\ opens \in Nat
    BY DEF Init
  <2>3. /\ userPc \in [Users -> {"idle"} \cup OpenLabels \cup CloseLabels]
        /\ userHandle \in [Users -> Handles \cup {NoHandle}]
        /\ joining \in [Users -> Threads \cup {NoThread}]
    BY DEF Init
  <2>4. /\ centralPc \in [Threads -> {"none", "cleanup", "exit", "exited"} \cup Polling]
        /\ scan \in [Threads -> {"new", "all"}]
        /\ todo \in [Threads -> SUBSET Handles]
        /\ target \in [Threads -> Handles \cup {NoHandle}]
    BY DEF Init
  <2>5. /\ ActivePhidgetManagers \in Int /\ localPhidgetManagers \subseteq Managers
        /\ state \in [Managers -> {"INACTIVE", "ACTIVATING", "ACTIVE"}]
    BY DEF Init
  <2>6. managerLock \in Threads \cup {NoThread} /\ leftEarly \in BOOLEAN
    BY DEF Init
  <2>7. QED
    BY <2>1, <2>2, <2>3, <2>4, <2>5, <2>6, Kinds DEF Init, TypeOK
<1>2. LockOwners
  BY DEF Init, LockOwners
<1>3. CallState /\ ClosedNotAttached
  BY DEF Init, CallState, ClosedNotAttached, OpenLabels, CloseLabels
<1>4. ScanState
  BY DEF Init, ScanState, Scanning
<1>5. QED
  BY <1>1, <1>2, <1>3, <1>4 DEF IInv

\* A step of an open preserves the invariant.
LEMMA OpenStep ==
  ASSUME IInv, NEW u \in Users, Open(u)
  PROVE  IInv'
<1> USE Kinds DEF IInv, userAt, centralAt, acquire, release, notUser, notCentral,
            notManager, deviceVars, userVars, threadVars, managerVars, Threads,
            Scanning, Polling, OpenLabels, CloseLabels
<1>1. ASSUME NEW h \in Handles, OpenLock(u, h) PROVE IInv'
  <2>1. TypeOK'
    BY <1>1 DEF OpenLock, TypeOK, CallState
  <2>2. LockOwners'
    <3>1. ASSUME NEW v \in Users, NEW g \in Handles
          PROVE  (openCloseLock[g] = v <=> userPc[v] # "idle" /\ userHandle[v] = g)'
      BY <1>1, <3>1 DEF OpenLock, TypeOK, LockOwners, CallState
    <3>2. ASSUME NEW s \in Threads, NEW g \in Handles
          PROVE  (openCloseLock[g] = s <=> centralPc[s] = "attach" /\ target[s] = g)'
      BY <1>1, DistinctOwners, <3>2 DEF OpenLock, TypeOK, LockOwners, CallState, ScanState
    <3>3. QED
      BY <3>1, <3>2 DEF LockOwners
  <2>3. CallState'
    BY <1>1 DEF OpenLock, TypeOK, LockOwners, CallState, ScanState, ClosedNotAttached
  <2>4. ScanState'
    BY <1>1 DEF OpenLock, TypeOK, LockOwners, CallState, ScanState
  <2>5. ClosedNotAttached'
    BY <1>1 DEF OpenLock, TypeOK, CallState, ScanState, ClosedNotAttached
  <2>6. QED
    BY <2>1, <2>2, <2>3, <2>4, <2>5
<1>2. CASE OpenDevice(u)
  <2>1. TypeOK'
    BY <1>2 DEF OpenDevice, TypeOK, CallState
  <2>2. LockOwners'
    BY <1>2 DEF OpenDevice, TypeOK, LockOwners, CallState, ScanState
  <2>3. CallState'
    BY <1>2 DEF OpenDevice, TypeOK, LockOwners, CallState, ScanState, ClosedNotAttached
  <2>4. ScanState'
    BY <1>2 DEF OpenDevice, TypeOK, LockOwners, CallState, ScanState
  <2>5. ClosedNotAttached'
    BY <1>2 DEF OpenDevice, TypeOK, CallState, ScanState, ClosedNotAttached
  <2>6. QED
    BY <2>1, <2>2, <2>3, <2>4, <2>5
<1>3. CASE OpenManager(u)
  <2>1. TypeOK'
    BY <1>3 DEF OpenManager, TypeOK, CallState
  <2>2. LockOwners'
    BY <1>3 DEF OpenManager, TypeOK, LockOwners, CallState, ScanState
  <2>3. CallState'
    BY <1>3 DEF OpenManager, TypeOK, LockOwners, CallState, ScanState, ClosedNotAttached
  <2>4. ScanState'
    BY <1>3 DEF OpenManager, TypeOK, LockOwners, CallState, ScanState
  <2>5. ClosedNotAttached'
    BY <1>3 DEF OpenManager, TypeOK, CallState, ScanState, ClosedNotAttached
  <2>6. QED
    BY <2>1, <2>2, <2>3, <2>4, <2>5
<1>4. CASE OpenNotInactive(u)
  <2>1. TypeOK'
    BY <1>4 DEF OpenNotInactive, TypeOK, CallState
  <2>2. LockOwners'
    BY <1>4 DEF OpenNotInactive, TypeOK, LockOwners, CallState, ScanState
  <2>3. CallState'
    BY <1>4 DEF OpenNotInactive, TypeOK, LockOwners, CallState, ScanState, ClosedNotAttached
  <2>4. ScanState'
    BY <1>4 DEF OpenNotInactive, TypeOK, LockOwners, CallState, ScanState
  <2>5. ClosedNotAttached'
    BY <1>4 DEF OpenNotInactive, TypeOK, CallState, ScanState, ClosedNotAttached
  <2>6. QED
    BY <2>1, <2>2, <2>3, <2>4, <2>5
<1>5. CASE StartTest(u)
  <2>1. TypeOK'
    BY <1>5 DEF StartTest, TypeOK, CallState
  <2>2. LockOwners'
    BY <1>5 DEF StartTest, TypeOK, LockOwners, CallState, ScanState
  <2>3. CallState'
    BY <1>5 DEF StartTest, TypeOK, LockOwners, CallState, ScanState, ClosedNotAttached
  <2>4. ScanState'
    BY <1>5 DEF StartTest, TypeOK, LockOwners, CallState, ScanState
  <2>5. ClosedNotAttached'
    BY <1>5 DEF StartTest, TypeOK, CallState, ScanState, ClosedNotAttached
  <2>6. QED
    BY <2>1, <2>2, <2>3, <2>4, <2>5
<1>6. CASE StartCreate(u)
  <2>1. TypeOK'
    <3>1. created + 1 \in Threads /\ created' \in 0 .. MaxThreads
      BY <1>6 DEF StartCreate, TypeOK
    <3>2. /\ centralPc' \in [Threads -> {"none", "cleanup", "exit", "exited"} \cup Polling]
          /\ userPc' \in [Users -> {"idle"} \cup OpenLabels \cup CloseLabels]
      BY <1>6 DEF StartCreate, TypeOK
    <3> QED
      BY <1>6, <3>1, <3>2 DEF StartCreate, TypeOK
  <2>2. LockOwners'
    BY <1>6 DEF StartCreate, TypeOK, LockOwners, CallState, ScanState
  <2>3. CallState'
    BY <1>6 DEF StartCreate, TypeOK, LockOwners, CallState, ScanState, ClosedNotAttached
  <2>4. ScanState'
    BY <1>6 DEF StartCreate, TypeOK, LockOwners, CallState, ScanState
  <2>5. ClosedNotAttached'
    BY <1>6 DEF StartCreate, TypeOK, CallState, ScanState, ClosedNotAttached
  <2>6. QED
    BY <2>1, <2>2, <2>3, <2>4, <2>5
<1>7. CASE StartSetStatus(u)
  <2>1. TypeOK'
    BY <1>7 DEF StartSetStatus, TypeOK, CallState
  <2>2. LockOwners'
    BY <1>7 DEF StartSetStatus, TypeOK, LockOwners, CallState, ScanState
  <2>3. CallState'
    BY <1>7 DEF StartSetStatus, TypeOK, LockOwners, CallState, ScanState, ClosedNotAttached
  <2>4. ScanState'
    BY <1>7 DEF StartSetStatus, TypeOK, LockOwners, CallState, ScanState
  <2>5. ClosedNotAttached'
    BY <1>7 DEF StartSetStatus, TypeOK, CallState, ScanState, ClosedNotAttached
  <2>6. QED
    BY <2>1, <2>2, <2>3, <2>4, <2>5
<1>8. CASE OpenReturn(u)
  <2>1. TypeOK'
    BY <1>8 DEF OpenReturn, TypeOK, CallState
  <2>2. LockOwners'
    <3>0. openCloseLock[userHandle[u]] = u /\ userHandle[u] \in Handles
      BY <1>8 DEF OpenReturn, TypeOK, LockOwners, CallState
    <3>1. ASSUME NEW v \in Users, NEW g \in Handles
          PROVE  (openCloseLock[g] = v <=> userPc[v] # "idle" /\ userHandle[v] = g)'
      BY <1>8, <3>0, DistinctOwners, <3>1 DEF OpenReturn, TypeOK, LockOwners, CallState
    <3>2. ASSUME NEW s \in Threads, NEW g \in Handles
          PROVE  (openCloseLock[g] = s <=> centralPc[s] = "attach" /\ target[s] = g)'
      BY <1>8, <3>0, DistinctOwners, <3>2 DEF OpenReturn, TypeOK, LockOwners, CallState, ScanState
    <3>3. QED
      BY <3>1, <3>2 DEF LockOwners
  <2>3. CallState'
    BY <1>8 DEF OpenReturn, TypeOK, LockOwners, CallState, ScanState, ClosedNotAttached
  <2>4. ScanState'
    BY <1>8 DEF OpenReturn, TypeOK, LockOwners, CallState, ScanState
  <2>5. ClosedNotAttached'
    BY <1>8 DEF OpenReturn, TypeOK, CallState, ScanState, ClosedNotAttached
  <2>6. QED
    BY <2>1, <2>2, <2>3, <2>4, <2>5
<1>9. QED
  BY <1>1, <1>2, <1>3, <1>4, <1>5, <1>6, <1>7, <1>8 DEF Open

\* A step of a close preserves the invariant.
LEMMA CloseStep ==
  ASSUME IInv, NEW u \in Users, Close(u)
  PROVE  IInv'
<1> USE Kinds DEF IInv, userAt, centralAt, acquire, release, notUser, notCentral,
            notManager, deviceVars, userVars, threadVars, managerVars, Threads,
            Scanning, Polling, OpenLabels, CloseLabels
<1>1. ASSUME NEW h \in Handles, CloseLock(u, h) PROVE IInv'
  <2>1. TypeOK'
    BY <1>1 DEF CloseLock, TypeOK, CallState
  <2>2. LockOwners'
    <3>1. ASSUME NEW v \in Users, NEW g \in Handles
          PROVE  (openCloseLock[g] = v <=> userPc[v] # "idle" /\ userHandle[v] = g)'
      BY <1>1, <3>1 DEF CloseLock, TypeOK, LockOwners, CallState
    <3>2. ASSUME NEW s \in Threads, NEW g \in Handles
          PROVE  (openCloseLock[g] = s <=> centralPc[s] = "attach" /\ target[s] = g)'
      BY <1>1, DistinctOwners, <3>2 DEF CloseLock, TypeOK, LockOwners, CallState, ScanState
    <3>3. QED
      BY <3>1, <3>2 DEF LockOwners
  <2>3. CallState'
    BY <1>1 DEF CloseLock, TypeOK, LockOwners, CallState, ScanState, ClosedNotAttached
  <2>4. ScanState'
    BY <1>1 DEF CloseLock, TypeOK, LockOwners, CallState, ScanState
  <2>5. ClosedNotAttached'
    BY <1>1 DEF CloseLock, TypeOK, CallState, ScanState, ClosedNotAttached
  <2>6. QED
    BY <2>1, <2>2, <2>3, <2>4, <2>5
<1>2. CASE CloseDevice(u)
  <2>1. TypeOK'
    BY <1>2 DEF CloseDevice, TypeOK, CallState
  <2>2. LockOwners'
    BY <1>2 DEF CloseDevice, TypeOK, LockOwners, CallState, ScanState
  <2>3. CallState'
    BY <1>2 DEF CloseDevice, TypeOK, LockOwners, CallState, ScanState, ClosedNotAttached
  <2>4. ScanState'
    BY <1>2 DEF CloseDevice, TypeOK, LockOwners, CallState, ScanState
  <2>5. ClosedNotAttached'
    BY <1>2 DEF CloseDevice, TypeOK, CallState, ScanState, ClosedNotAttached
  <2>6. QED
    BY <2>1, <2>2, <2>3, <2>4, <2>5
<1>3. CASE CloseDetach(u)
  <2>1. TypeOK'
    BY <1>3 DEF CloseDetach, TypeOK, CallState
  <2>2. LockOwners'
    BY <1>3 DEF CloseDetach, TypeOK, LockOwners, CallState, ScanState
  <2>3. CallState'
    BY <1>3 DEF CloseDetach, TypeOK, LockOwners, CallState, ScanState, ClosedNotAttached
  <2>4. ScanState'
    BY <1>3 DEF CloseDetach, TypeOK, LockOwners, CallState, ScanState
  <2>5. ClosedNotAttached'
    BY <1>3 DEF CloseDetach, TypeOK, CallState, ScanState, ClosedNotAttached
  <2>6. QED
    BY <2>1, <2>2, <2>3, <2>4, <2>5
<1>4. CASE CloseManager(u)
  <2>1. TypeOK'
    BY <1>4 DEF CloseManager, TypeOK, CallState
  <2>2. LockOwners'
    BY <1>4 DEF CloseManager, TypeOK, LockOwners, CallState, ScanState
  <2>3. CallState'
    BY <1>4 DEF CloseManager, TypeOK, LockOwners, CallState, ScanState, ClosedNotAttached
  <2>4. ScanState'
    BY <1>4 DEF CloseManager, TypeOK, LockOwners, CallState, ScanState
  <2>5. ClosedNotAttached'
    BY <1>4 DEF CloseManager, TypeOK, CallState, ScanState, ClosedNotAttached
  <2>6. QED
    BY <2>1, <2>2, <2>3, <2>4, <2>5
<1>5. CASE CloseDelist(u)
  <2>1. TypeOK'
    BY <1>5 DEF CloseDelist, TypeOK, CallState
  <2>2. LockOwners'
    BY <1>5 DEF CloseDelist, TypeOK, LockOwners, CallState, ScanState
  <2>3. CallState'
    BY <1>5 DEF CloseDelist, TypeOK, LockOwners, CallState, ScanState, ClosedNotAttached
  <2>4. ScanState'
    BY <1>5 DEF CloseDelist, TypeOK, LockOwners, CallState, ScanState
  <2>5. ClosedNotAttached'
    BY <1>5 DEF CloseDelist, TypeOK, CallState, ScanState, ClosedNotAttached
  <2>6. QED
    BY <2>1, <2>2, <2>3, <2>4, <2>5
<1>6. CASE CloseTestDevices(u)
  <2>1. TypeOK'
    BY <1>6 DEF CloseTestDevices, TypeOK, CallState
  <2>2. LockOwners'
    BY <1>6 DEF CloseTestDevices, TypeOK, LockOwners, CallState, ScanState
  <2>3. CallState'
    BY <1>6 DEF CloseTestDevices, TypeOK, LockOwners, CallState, ScanState, ClosedNotAttached
  <2>4. ScanState'
    BY <1>6 DEF CloseTestDevices, TypeOK, LockOwners, CallState, ScanState
  <2>5. ClosedNotAttached'
    BY <1>6 DEF CloseTestDevices, TypeOK, CallState, ScanState, ClosedNotAttached
  <2>6. QED
    BY <2>1, <2>2, <2>3, <2>4, <2>5
<1>7. CASE CloseTestManagers(u)
  <2>1. TypeOK'
    BY <1>7 DEF CloseTestManagers, TypeOK, CallState
  <2>2. LockOwners'
    BY <1>7 DEF CloseTestManagers, TypeOK, LockOwners, CallState, ScanState
  <2>3. CallState'
    BY <1>7 DEF CloseTestManagers, TypeOK, LockOwners, CallState, ScanState, ClosedNotAttached
  <2>4. ScanState'
    BY <1>7 DEF CloseTestManagers, TypeOK, LockOwners, CallState, ScanState
  <2>5. ClosedNotAttached'
    BY <1>7 DEF CloseTestManagers, TypeOK, CallState, ScanState, ClosedNotAttached
  <2>6. QED
    BY <2>1, <2>2, <2>3, <2>4, <2>5
<1>8. CASE JoinTest(u)
  <2>1. TypeOK'
    BY <1>8 DEF JoinTest, TypeOK, CallState
  <2>2. LockOwners'
    BY <1>8 DEF JoinTest, TypeOK, LockOwners, CallState, ScanState
  <2>3. CallState'
    BY <1>8 DEF JoinTest, TypeOK, LockOwners, CallState, ScanState, ClosedNotAttached
  <2>4. ScanState'
    BY <1>8 DEF JoinTest, TypeOK, LockOwners, CallState, ScanState
  <2>5. ClosedNotAttached'
    BY <1>8 DEF JoinTest, TypeOK, CallState, ScanState, ClosedNotAttached
  <2>6. QED
    BY <2>1, <2>2, <2>3, <2>4, <2>5
<1>9. CASE JoinWait(u)
  <2>1. TypeOK'
    BY <1>9 DEF JoinWait, TypeOK, CallState
  <2>2. LockOwners'
    BY <1>9 DEF JoinWait, TypeOK, LockOwners, CallState, ScanState
  <2>3. CallState'
    BY <1>9 DEF JoinWait, TypeOK, LockOwners, CallState, ScanState, ClosedNotAttached
  <2>4. ScanState'
    BY <1>9 DEF JoinWait, TypeOK, LockOwners, CallState, ScanState
  <2>5. ClosedNotAttached'
    BY <1>9 DEF JoinWait, TypeOK, CallState, ScanState, ClosedNotAttached
  <2>6. QED
    BY <2>1, <2>2, <2>3, <2>4, <2>5
<1>10. CASE JoinClear(u)
  <2>1. TypeOK'
    BY <1>10 DEF JoinClear, TypeOK, CallState
  <2>2. LockOwners'
    BY <1>10 DEF JoinClear, TypeOK, LockOwners, CallState, ScanState
  <2>3. CallState'
    BY <1>10 DEF JoinClear, TypeOK, LockOwners, CallState, ScanState, ClosedNotAttached
  <2>4. ScanState'
    BY <1>10 DEF JoinClear, TypeOK, LockOwners, CallState, ScanState
  <2>5. ClosedNotAttached'
    BY <1>10 DEF JoinClear, TypeOK, CallState, ScanState, ClosedNotAttached
  <2>6. QED
    BY <2>1, <2>2, <2>3, <2>4, <2>5
<1>11. CASE CUSBUninit(u)
  <2>1. TypeOK'
    BY <1>11 DEF CUSBUninit, TypeOK, CallState
  <2>2. LockOwners'
    BY <1>11 DEF CUSBUninit, TypeOK, LockOwners, CallState, ScanState
  <2>3. CallState'
    BY <1>11 DEF CUSBUninit, TypeOK, LockOwners, CallState, ScanState, ClosedNotAttached
  <2>4. ScanState'
    BY <1>11 DEF CUSBUninit, TypeOK, LockOwners, CallState, ScanState
  <2>5. ClosedNotAttached'
    BY <1>11 DEF CUSBUninit, TypeOK, CallState, ScanState, ClosedNotAttached
  <2>6. QED
    BY <2>1, <2>2, <2>3, <2>4, <2>5
<1>12. CASE CloseReturn(u)
  <2>1. TypeOK'
    BY <1>12 DEF CloseReturn, TypeOK, CallState
  <2>2. LockOwners'
    <3>0. openCloseLock[userHandle[u]] = u /\ userHandle[u] \in Handles
      BY <1>12 DEF CloseReturn, TypeOK, LockOwners, CallState
    <3>1. ASSUME NEW v \in Users, NEW g \in Handles
          PROVE  (openCloseLock[g] = v <=> userPc[v] # "idle" /\ userHandle[v] = g)'
      BY <1>12, <3>0, DistinctOwners, <3>1 DEF CloseReturn, TypeOK, LockOwners, CallState
    <3>2. ASSUME NEW s \in Threads, NEW g \in Handles
          PROVE  (openCloseLock[g] = s <=> centralPc[s] = "attach" /\ target[s] = g)'
      BY <1>12, <3>0, DistinctOwners, <3>2 DEF CloseReturn, TypeOK, LockOwners, CallState, ScanState
    <3>3. QED
      BY <3>1, <3>2 DEF LockOwners
  <2>3. CallState'
    BY <1>12 DEF CloseReturn, TypeOK, LockOwners, CallState, ScanState, ClosedNotAttached
  <2>4. ScanState'
    BY <1>12 DEF CloseReturn, TypeOK, LockOwners, CallState, ScanState
  <2>5. ClosedNotAttached'
    BY <1>12 DEF CloseReturn, TypeOK, CallState, ScanState, ClosedNotAttached
  <2>6. QED
    BY <2>1, <2>2, <2>3, <2>4, <2>5
<1>13. QED
  BY <1>1, <1>2, <1>3, <1>4, <1>5, <1>6,
     <1>7, <1>8, <1>9, <1>10, <1>11, <1>12 DEF Close

\* A step of a central thread preserves the invariant.
LEMMA CentralStep ==
  ASSUME IInv, NEW t \in Threads, Central(t)
  PROVE  IInv'
<1> USE Kinds DEF IInv, userAt, centralAt, acquire, release, notUser, notCentral,
            notManager, deviceVars, userVars, threadVars, managerVars, Threads,
            Scanning, Polling, OpenLabels, CloseLabels
<1>1. CASE CentralLoop(t)
  <2>1. TypeOK'
    BY <1>1 DEF CentralLoop, TypeOK, CallState
  <2>2. LockOwners'
    BY <1>1 DEF CentralLoop, TypeOK, LockOwners, CallState, ScanState
  <2>3. CallState'
    BY <1>1 DEF CentralLoop, TypeOK, LockOwners, CallState, ScanState, ClosedNotAttached
  <2>4. ScanState'
    BY <1>1 DEF CentralLoop, TypeOK, LockOwners, CallState, ScanState
  <2>5. ClosedNotAttached'
    BY <1>1 DEF CentralLoop, TypeOK, CallState, ScanState, ClosedNotAttached
  <2>6. QED
    BY <2>1, <2>2, <2>3, <2>4, <2>5
<1>2. CASE CentralLoopManagers(t)
  <2>1. TypeOK'
    BY <1>2 DEF CentralLoopManagers, TypeOK, CallState
  <2>2. LockOwners'
    BY <1>2 DEF CentralLoopManagers, TypeOK, LockOwners, CallState, ScanState
  <2>3. CallState'
    BY <1>2 DEF CentralLoopManagers, TypeOK, LockOwners, CallState, ScanState, ClosedNotAttached
  <2>4. ScanState'
    BY <1>2 DEF CentralLoopManagers, TypeOK, LockOwners, CallState, ScanState
  <2>5. ClosedNotAttached'
    BY <1>2 DEF CentralLoopManagers, TypeOK, CallState, ScanState, ClosedNotAttached
  <2>6. QED
    BY <2>1, <2>2, <2>3, <2>4, <2>5
<1>3. CASE PollLockManagers(t)
  <2>1. TypeOK'
    BY <1>3 DEF PollLockManagers, TypeOK, CallState
  <2>2. LockOwners'
    BY <1>3 DEF PollLockManagers, TypeOK, LockOwners, CallState, ScanState
  <2>3. CallState'
    BY <1>3 DEF PollLockManagers, TypeOK, LockOwners, CallState, ScanState, ClosedNotAttached
  <2>4. ScanState'
    BY <1>3 DEF PollLockManagers, TypeOK, LockOwners, CallState, ScanState
  <2>5. ClosedNotAttached'
    BY <1>3 DEF PollLockManagers, TypeOK, CallState, ScanState, ClosedNotAttached
  <2>6. QED
    BY <2>1, <2>2, <2>3, <2>4, <2>5
<1>4. CASE PollLockDevices(t)
  <2>1. TypeOK'
    BY <1>4 DEF PollLockDevices, TypeOK, CallState
  <2>2. LockOwners'
    BY <1>4 DEF PollLockDevices, TypeOK, LockOwners, CallState, ScanState
  <2>3. CallState'
    BY <1>4 DEF PollLockDevices, TypeOK, LockOwners, CallState, ScanState, ClosedNotAttached
  <2>4. ScanState'
    BY <1>4 DEF PollLockDevices, TypeOK, LockOwners, CallState, ScanState
  <2>5. ClosedNotAttached'
    BY <1>4 DEF PollLockDevices, TypeOK, CallState, ScanState, ClosedNotAttached
  <2>6. QED
    BY <2>1, <2>2, <2>3, <2>4, <2>5
<1>5. ASSUME NEW m \in Managers, InitialTest(t, m) PROVE IInv'
  <2>1. TypeOK'
    <3>1. todo' \in [Threads -> SUBSET Handles]
      BY <1>5 DEF InitialTest, TypeOK
    <3>2. target' \in [Threads -> Handles \cup {NoHandle}]
      BY <1>5 DEF InitialTest, TypeOK
    <3>3. centralPc' \in [Threads -> {"none", "cleanup", "exit", "exited"} \cup Polling]
      BY <1>5 DEF InitialTest, TypeOK
    <3> QED
      BY <1>5, <3>1, <3>2, <3>3 DEF InitialTest, TypeOK
  <2>2. LockOwners'
    BY <1>5 DEF InitialTest, TypeOK, LockOwners, CallState, ScanState
  <2>3. CallState'
    BY <1>5 DEF InitialTest, TypeOK, LockOwners, CallState, ScanState, ClosedNotAttached
  <2>4. ScanState'
    BY <1>5 DEF InitialTest, TypeOK, LockOwners, CallState, ScanState
  <2>5. ClosedNotAttached'
    BY <1>5 DEF InitialTest, TypeOK, CallState, ScanState, ClosedNotAttached
  <2>6. QED
    BY <2>1, <2>2, <2>3, <2>4, <2>5
<1>6. CASE InitialActivate(t)
  <2>1. TypeOK'
    BY <1>6 DEF InitialActivate, TypeOK, CallState
  <2>2. LockOwners'
    BY <1>6 DEF InitialActivate, TypeOK, LockOwners, CallState, ScanState
  <2>3. CallState'
    BY <1>6 DEF InitialActivate, TypeOK, LockOwners, CallState, ScanState, ClosedNotAttached
  <2>4. ScanState'
    BY <1>6 DEF InitialActivate, TypeOK, LockOwners, CallState, ScanState
  <2>5. ClosedNotAttached'
    BY <1>6 DEF InitialActivate, TypeOK, CallState, ScanState, ClosedNotAttached
  <2>6. QED
    BY <2>1, <2>2, <2>3, <2>4, <2>5
<1>7. CASE CentralPoll(t)
  <2>1. TypeOK'
    BY <1>7 DEF CentralPoll, TypeOK, CallState
  <2>2. LockOwners'
    BY <1>7 DEF CentralPoll, TypeOK, LockOwners, CallState, ScanState
  <2>3. CallState'
    BY <1>7 DEF CentralPoll, TypeOK, LockOwners, CallState, ScanState, ClosedNotAttached
  <2>4. ScanState'
    BY <1>7 DEF CentralPoll, TypeOK, LockOwners, CallState, ScanState
  <2>5. ClosedNotAttached'
    BY <1>7 DEF CentralPoll, TypeOK, CallState, ScanState, ClosedNotAttached
  <2>6. QED
    BY <2>1, <2>2, <2>3, <2>4, <2>5
<1>8. CASE CentralFind(t)
  <2>1. TypeOK'
    BY <1>8 DEF CentralFind, TypeOK, CallState
  <2>2. LockOwners'
    BY <1>8 DEF CentralFind, TypeOK, LockOwners, CallState, ScanState
  <2>3. CallState'
    BY <1>8 DEF CentralFind, TypeOK, LockOwners, CallState, ScanState, ClosedNotAttached
  <2>4. ScanState'
    BY <1>8 DEF CentralFind, TypeOK, LockOwners, CallState, ScanState
  <2>5. ClosedNotAttached'
    BY <1>8 DEF CentralFind, TypeOK, CallState, ScanState, ClosedNotAttached
  <2>6. QED
    BY <2>1, <2>2, <2>3, <2>4, <2>5
<1>9. ASSUME NEW d \in Devices, CentralMatch(t, d) PROVE IInv'
  <2>1. TypeOK'
    <3>1. todo' \in [Threads -> SUBSET Handles]
      BY <1>9 DEF CentralMatch, TypeOK
    <3>2. target' \in [Threads -> Handles \cup {NoHandle}]
      BY <1>9 DEF CentralMatch, TypeOK
    <3>3. centralPc' \in [Threads -> {"none", "cleanup", "exit", "exited"} \cup Polling]
      BY <1>9 DEF CentralMatch, TypeOK
    <3> QED
      BY <1>9, <3>1, <3>2, <3>3 DEF CentralMatch, TypeOK
  <2>2. LockOwners'
    BY <1>9 DEF CentralMatch, TypeOK, LockOwners, CallState, ScanState
  <2>3. CallState'
    BY <1>9 DEF CentralMatch, TypeOK, LockOwners, CallState, ScanState, ClosedNotAttached
  <2>4. ScanState'
    BY <1>9 DEF CentralMatch, TypeOK, LockOwners, CallState, ScanState
  <2>5. ClosedNotAttached'
    BY <1>9 DEF CentralMatch, TypeOK, CallState, ScanState, ClosedNotAttached
  <2>6. QED
    BY <2>1, <2>2, <2>3, <2>4, <2>5
<1>10. CASE CentralLockHandle(t)
  <2>1. TypeOK'
    BY <1>10 DEF CentralLockHandle, TypeOK, CallState
  <2>2. LockOwners'
    <3>0. target[t] \in Handles
      BY <1>10 DEF CentralLockHandle, TypeOK, ScanState
    <3>1. ASSUME NEW v \in Users, NEW g \in Handles
          PROVE  (openCloseLock[g] = v <=> userPc[v] # "idle" /\ userHandle[v] = g)'
      BY <1>10, <3>0, DistinctOwners, <3>1 DEF CentralLockHandle, TypeOK, LockOwners, CallState
    <3>2. ASSUME NEW s \in Threads, NEW g \in Handles
          PROVE  (openCloseLock[g] = s <=> centralPc[s] = "attach" /\ target[s] = g)'
      BY <1>10, <3>0, DistinctOwners, <3>2 DEF CentralLockHandle, TypeOK, LockOwners, CallState, ScanState
    <3>3. QED
      BY <3>1, <3>2 DEF LockOwners
  <2>3. CallState'
    BY <1>10 DEF CentralLockHandle, TypeOK, LockOwners, CallState, ScanState, ClosedNotAttached
  <2>4. ScanState'
    <3>1. ASSUME NEW s \in Threads
          PROVE  /\ (s > created => centralPc[s] = "none")'
                 /\ (centralPc[s] \in Scanning <=> attachedDevicesLock = s)'
      BY <1>10, <3>1 DEF CentralLockHandle, TypeOK, ScanState
    <3>2. ASSUME NEW s \in Threads, (centralPc[s] \in {"lock", "attach"})'
          PROVE  (target[s] \in Devices /\ target[s] \notin attached)'
      BY <1>10, <3>2 DEF CentralLockHandle, TypeOK, ScanState
    <3>3. QED
      BY <3>1, <3>2 DEF ScanState
  <2>5. ClosedNotAttached'
    BY <1>10 DEF CentralLockHandle, TypeOK, CallState, ScanState, ClosedNotAttached
  <2>6. QED
    BY <2>1, <2>2, <2>3, <2>4, <2>5
<1>11. CASE CentralAttach(t)
  <2>1. TypeOK'
    BY <1>11 DEF CentralAttach, TypeOK, CallState
  <2>2. LockOwners'
    <3>0. target[t] \in Handles /\ openCloseLock[target[t]] = t
      BY <1>11 DEF CentralAttach, TypeOK, ScanState, LockOwners
    <3>1. ASSUME NEW v \in Users, NEW g \in Handles
          PROVE  (openCloseLock[g] = v <=> userPc[v] # "idle" /\ userHandle[v] = g)'
      BY <1>11, <3>0, DistinctOwners, <3>1 DEF CentralAttach, TypeOK, LockOwners, CallState
    <3>2. ASSUME NEW s \in Threads, NEW g \in Handles
          PROVE  (openCloseLock[g] = s <=> centralPc[s] = "attach" /\ target[s] = g)'
      BY <1>11, <3>0, DistinctOwners, <3>2 DEF CentralAttach, TypeOK, LockOwners, CallState, ScanState
    <3>3. QED
      BY <3>1, <3>2 DEF LockOwners
  <2>3. CallState'
    <3>1. ASSUME NEW v \in Users, userPc[v] # "idle"
          PROVE  userHandle[v] # target[t]
      <4>1. openCloseLock[userHandle[v]] = v
        BY <3>1 DEF LockOwners, CallState
      <4>2. openCloseLock[target[t]] = t
        BY <1>11 DEF CentralAttach, TypeOK, LockOwners, ScanState
      <4>3. QED
        BY <3>1, <4>1, <4>2, DistinctOwners
    <3>2. QED
      BY <1>11, <3>1 DEF CentralAttach, TypeOK, CallState
  <2>4. ScanState'
    BY <1>11 DEF CentralAttach, TypeOK, LockOwners, CallState, ScanState
  <2>5. ClosedNotAttached'
    BY <1>11 DEF CentralAttach, TypeOK, CallState, ScanState, ClosedNotAttached
  <2>6. QED
    BY <2>1, <2>2, <2>3, <2>4, <2>5
<1>12. CASE PollUnlock(t)
  <2>1. TypeOK'
    BY <1>12 DEF PollUnlock, TypeOK, CallState
  <2>2. LockOwners'
    BY <1>12 DEF PollUnlock, TypeOK, LockOwners, CallState, ScanState
  <2>3. CallState'
    BY <1>12 DEF PollUnlock, TypeOK, LockOwners, CallState, ScanState, ClosedNotAttached
  <2>4. ScanState'
    BY <1>12 DEF PollUnlock, TypeOK, LockOwners, CallState, ScanState
  <2>5. ClosedNotAttached'
    BY <1>12 DEF PollUnlock, TypeOK, CallState, ScanState, ClosedNotAttached
  <2>6. QED
    BY <2>1, <2>2, <2>3, <2>4, <2>5
<1>13. CASE FindUnlock(t)
  <2>1. TypeOK'
    BY <1>13 DEF FindUnlock, TypeOK, CallState
  <2>2. LockOwners'
    BY <1>13 DEF FindUnlock, TypeOK, LockOwners, CallState, ScanState
  <2>3. CallState'
    BY <1>13 DEF FindUnlock, TypeOK, LockOwners, CallState, ScanState, ClosedNotAttached
  <2>4. ScanState'
    BY <1>13 DEF FindUnlock, TypeOK, LockOwners, CallState, ScanState
  <2>5. ClosedNotAttached'
    BY <1>13 DEF FindUnlock, TypeOK, CallState, ScanState, ClosedNotAttached
  <2>6. QED
    BY <2>1, <2>2, <2>3, <2>4, <2>5
<1>14. CASE CentralWait(t)
  <2>1. TypeOK'
    BY <1>14 DEF CentralWait, TypeOK, CallState
  <2>2. LockOwners'
    BY <1>14 DEF CentralWait, TypeOK, LockOwners, CallState, ScanState
  <2>3. CallState'
    BY <1>14 DEF CentralWait, TypeOK, LockOwners, CallState, ScanState, ClosedNotAttached
  <2>4. ScanState'
    BY <1>14 DEF CentralWait, TypeOK, LockOwners, CallState, ScanState
  <2>5. ClosedNotAttached'
    BY <1>14 DEF CentralWait, TypeOK, CallState, ScanState, ClosedNotAttached
  <2>6. QED
    BY <2>1, <2>2, <2>3, <2>4, <2>5
<1>15. CASE CentralCleanup(t)
  <2>1. TypeOK'
    BY <1>15 DEF CentralCleanup, TypeOK, CallState
  <2>2. LockOwners'
    BY <1>15 DEF CentralCleanup, TypeOK, LockOwners, CallState, ScanState
  <2>3. CallState'
    BY <1>15 DEF CentralCleanup, TypeOK, LockOwners, CallState, ScanState, ClosedNotAttached
  <2>4. ScanState'
    <3>1. ASSUME NEW s \in Threads
          PROVE  /\ (s > created => centralPc[s] = "none")'
                 /\ (centralPc[s] \in Scanning <=> attachedDevicesLock = s)'
      BY <1>15, <3>1 DEF CentralCleanup, TypeOK, ScanState
    <3>2. ASSUME NEW s \in Threads, (centralPc[s] \in {"lock", "attach"})'
          PROVE  (target[s] \in Devices /\ target[s] \notin attached)'
      BY <1>15, <3>2 DEF CentralCleanup, TypeOK, ScanState
    <3>3. QED
      BY <3>1, <3>2 DEF ScanState
  <2>5. ClosedNotAttached'
    BY <1>15 DEF CentralCleanup, TypeOK, CallState, ScanState, ClosedNotAttached
  <2>6. QED
    BY <2>1, <2>2, <2>3, <2>4, <2>5
<1>16. CASE CentralExit(t)
  <2>1. TypeOK'
    BY <1>16 DEF CentralExit, TypeOK, CallState
  <2>2. LockOwners'
    BY <1>16 DEF CentralExit, TypeOK, LockOwners, CallState, ScanState
  <2>3. CallState'
    BY <1>16 DEF CentralExit, TypeOK, LockOwners, CallState, ScanState, ClosedNotAttached
  <2>4. ScanState'
    BY <1>16 DEF CentralExit, TypeOK, LockOwners, CallState, ScanState
  <2>5. ClosedNotAttached'
    BY <1>16 DEF CentralExit, TypeOK, CallState, ScanState, ClosedNotAttached
  <2>6. QED
    BY <2>1, <2>2, <2>3, <2>4, <2>5
<1>17. QED
  BY <1>1, <1>2, <1>3, <1>4, <1>5, <1>6, <1>7, <1>8,
     <1>9, <1>10, <1>11, <1>12, <1>13, <1>14, <1>15, <1>16 DEF Central

\* A step of the bus preserves the invariant.
LEMMA BusStep ==
  ASSUME IInv, NEW d \in Pluggable, Plug(d) \/ Pull(d)
  PROVE  IInv'
<1> USE Kinds DEF IInv, userAt, centralAt, acquire, release, notUser, notCentral,
            notManager, deviceVars, userVars, threadVars, managerVars, Threads,
            Scanning, Polling, OpenLabels, CloseLabels
<1>1. CASE Plug(d)
  <2>1. TypeOK'
    BY <1>1 DEF Plug, TypeOK, CallState
  <2>2. LockOwners'
    BY <1>1 DEF Plug, TypeOK, LockOwners, CallState, ScanState
  <2>3. CallState'
    BY <1>1 DEF Plug, TypeOK, LockOwners, CallState, ScanState, ClosedNotAttached
  <2>4. ScanState'
    BY <1>1 DEF Plug, TypeOK, LockOwners, CallState, ScanState
  <2>5. ClosedNotAttached'
    BY <1>1 DEF Plug, TypeOK, CallState, ScanState, ClosedNotAttached
  <2>6. QED
    BY <2>1, <2>2, <2>3, <2>4, <2>5
<1>2. CASE Pull(d)
  <2>1. TypeOK'
    BY <1>2 DEF Pull, TypeOK, CallState
  <2>2. LockOwners'
    BY <1>2 DEF Pull, TypeOK, LockOwners, CallState, ScanState
  <2>3. CallState'
    BY <1>2 DEF Pull, TypeOK, LockOwners, CallState, ScanState, ClosedNotAttached
  <2>4. ScanState'
    BY <1>2 DEF Pull, TypeOK, LockOwners, CallState, ScanState
  <2>5. ClosedNotAttached'
    BY <1>2 DEF Pull, TypeOK, CallState, ScanState, ClosedNotAttached
  <2>6. QED
    BY <2>1, <2>2, <2>3, <2>4, <2>5
<1>3. QED
  BY <1>1, <1>2

\* Nothing changes in a stuttering step.
LEMMA Stutter == IInv /\ UNCHANGED vars => IInv'
  BY DEF IInv, TypeOK, LockOwners, CallState, ScanState, ClosedNotAttached, vars,
         deviceVars, userVars, threadVars, managerVars

\* Every reachable state satisfies the inductive invariant: openCloseLock and
\* attachedDevicesLock have the owners the code means them to have.
THEOREM Invariance == Spec => []IInv
<1>1. Init => IInv
  BY InitInvariant
<1>2. IInv /\ [Next]_vars => IInv'
  BY OpenStep, CloseStep, CentralStep, BusStep, Stutter DEF Next
<1>3. QED
  BY <1>1, <1>2, PTL DEF Spec

\* Type correctness of CentralThread.
THEOREM TypeCorrect == Spec => []TypeOK
  BY Invariance, PTL DEF IInv

\* CPhidget_close and findActiveDevice never leave a closed handle attached.
THEOREM AttachedIsOpened == Spec => []ClosedNotAttached
  BY Invariance, PTL DEF IInv

\* attachActiveDevice is never run on a handle that is attached.
THEOREM AttachedOnce == Spec => []AttachOnce
<1>1. IInv => AttachOnce
  BY DEF IInv, ScanState, AttachOnce
<1>2. QED
  BY <1>1, Invariance, PTL

\* openCloseLock keeps CPhidget_open and CPhidget_close of a handle out of its
\* attachActiveDevice.
THEOREM AttachExcludesClose == Spec => []NoCloseDuringAttach
<1>1. IInv => NoCloseDuringAttach
  <2>1. SUFFICES ASSUME IInv, NEW t \in Threads, NEW u \in Users,
                        centralPc[t] = "attach", userPc[u] # "idle",
                        userHandle[u] = target[t]
                 PROVE  FALSE
    BY DEF NoCloseDuringAttach
  <2>2. openCloseLock[target[t]] = t
    BY <2>1, Kinds DEF IInv, LockOwners, ScanState
  <2>3. openCloseLock[target[t]] = u
    BY <2>1 DEF IInv, LockOwners, CallState
  <2>4. QED
    BY <2>2, <2>3, <2>1
<1>2. QED
  BY <1>1, Invariance, PTL

-----------------------------------------------------------------------------
(* When the central thread runs, for one thread that opens and closes       *)
(* handles.  With two it need not: ActiveDevices, ActivePhidgetManagers and *)
(* thread_status are tested without a lock.                                *)

\* One thread calls CPhidget_open and CPhidget_close.
OneCaller == \A u, v \in Users : u = v

active   == ActiveDevices \cup localPhidgetManagers
polls(t) == centralPc[t] \in Polling
NoneRuns == \A t \in Threads : ~running(t)

\* Whatever becomes of the count, it is never too high: a manager is listed once.
ListInv ==
  /\ IsFiniteSet(localPhidgetManagers)
  /\ ActivePhidgetManagers <= Cardinality(localPhidgetManagers)
  /\ \A m \in localPhidgetManagers :
       \/ state[m] # "INACTIVE"
       \/ \E u \in Users : userPc[u] = "delist" /\ userHandle[u] = m

\* What is registered is opened, but for the handle of the call under way; an
\* open that starts the thread has registered its handle.
Registered ==
  /\ \A h \in active :
       \/ /\ h \in opened
          /\ \A u \in Users :
               userPc[u] \in CloseLabels \ {"unregister", "delist"} => userHandle[u] # h
       \/ \E u \in Users : /\ userPc[u] \in {"start", "create", "setStatus", "opened"}
                           /\ userHandle[u] = h
  /\ \A u \in Users :
       userPc[u] \in {"start", "create", "setStatus"} => userHandle[u] \in active

\* The only thread that runs is the one in CentralThread, whose status is TRUE
\* but for a moment after its creation; it leaves its loop when nothing is
\* registered, or early, though not before its status is set.
OneThread ==
  /\ \A t \in Threads : running(t) => t = threadHandle
  /\ threadStatus => threadHandle \in Threads /\ running(threadHandle)
  /\ threadStatus \/ NoneRuns \/ \E u \in Users : userPc[u] = "setStatus"
  /\ \A t \in Threads : centralPc[t] \in {"cleanup", "exit"} => leftEarly \/ active = {}
  /\ \A u \in Users : userPc[u] = "setStatus" =>
       /\ ~leftEarly
       /\ \A t \in Threads : centralPc[t] = "loopManagers" => userHandle[u] \in Managers

\* A thread polls while a handle is registered, but for the first one until it is
\* created, unless it left its loop early.
Started ==
  /\ \/ active = {}
     \/ leftEarly
     \/ \E t \in Threads : polls(t)
     \/ \E u \in Users : userPc[u] \in {"start", "create"} /\ active = {userHandle[u]}
  /\ \A u \in Users : userPc[u] = "start" /\ active = {userHandle[u]} => NoneRuns
  /\ \A u \in Users : userPc[u] = "create" => NoneRuns

\* The close of the last handle joins the thread before libusb is shut down.
Ended ==
  /\ active = {} /\ (\A u \in Users : userPc[u] \in {"idle", "register", "opened", "closed"})
     => NoneRuns /\ ~usb
  /\ \A u \in Users :
       /\ userPc[u] \in {"clear", "uninit"} => NoneRuns
       /\ userPc[u] = "testManagers" => ActiveDevices = {}
       /\ userPc[u] \in {"join", "joining", "clear", "uninit"} => active = {}
       /\ userPc[u] = "joining" => joining[u] = threadHandle /\ joining[u] \in Threads

\* What holds while the managers are counted right, and the inductive invariant.
RState == IInv /\ ListInv /\ Counted /\ Registered /\ OneThread /\ Started /\ Ended
RInv   == IInv /\ ListInv /\ (Counted => RState)

-----------------------------------------------------------------------------
\* Once the count is off it stays off: only the delisting of a manager that is
\* not listed, by which it gets off, changes the difference.
LEMMA CountKeeps ==
  ASSUME OneCaller, IInv, ListInv, [Next]_vars
  PROVE  /\ ListInv'
         /\ Counted' => Counted
         /\ Counted' => \A u \in Users : CloseDelist(u) => userHandle[u] \in localPhidgetManagers
<1> DEFINE list == localPhidgetManagers
           count == ActivePhidgetManagers
           Goal == /\ ListInv'
                   /\ Counted' => Counted
                   /\ Counted' => \A u \in Users : CloseDelist(u) => userHandle[u] \in list
<1>0. /\ IsFiniteSet(list) /\ Cardinality(list) \in Nat /\ count \in Int /\ count <= Cardinality(list)
      /\ \A u, v \in Users : u = v
      /\ DOMAIN userPc = Users /\ DOMAIN userHandle = Users /\ DOMAIN state = Managers
  BY FS_CardinalityType DEF OneCaller, IInv, ListInv, TypeOK
\* Listed managers stay listed and are delisted by none but their closer.
<1>1. ASSUME UNCHANGED <<list, count>>,
             \A m \in list : state[m] # "INACTIVE" =>
               state'[m] # "INACTIVE" \/ \E u \in Users : userPc'[u] = "delist" /\ userHandle'[u] = m,
             \A u \in Users : userPc[u] = "delist" => userPc'[u] = "delist" /\ userHandle'[u] = userHandle[u]
      PROVE  Goal
  <2>1. ListInv'
    BY <1>1 DEF ListInv
  <2>2. \A u \in Users : ~CloseDelist(u)
    BY <1>1, <1>0 DEF CloseDelist, userAt
  <2> QED
    BY <1>1, <2>1, <2>2 DEF Counted
<1>2. ASSUME NEW u \in Users, OpenManager(u) PROVE Goal
  <2>1. /\ userPc[u] = "register" /\ userPc'[u] = "start" /\ userHandle' = userHandle
        /\ userHandle[u] \in Managers /\ state[userHandle[u]] = "INACTIVE"
        /\ list' = list \cup {userHandle[u]} /\ count' = count + 1
        /\ state' = [state EXCEPT ![userHandle[u]] = "ACTIVATING"]
    BY <1>0, <1>2 DEF OpenManager, userAt
  <2>2. userHandle[u] \notin list
    BY <1>0, <2>1 DEF ListInv
  <2>3. IsFiniteSet(list') /\ Cardinality(list') = Cardinality(list) + 1
    BY <1>0, <2>1, <2>2, FS_AddElement
  <2>4. \A m \in list' : state'[m] # "INACTIVE"
    BY <1>0, <2>1 DEF ListInv, IInv, TypeOK
  <2>5. ListInv'
    BY <1>0, <2>1, <2>3, <2>4 DEF ListInv
  <2>6. \A v \in Users : ~CloseDelist(v)
    BY <1>0, <2>1 DEF CloseDelist, userAt
  <2> QED
    BY <1>0, <2>1, <2>3, <2>5, <2>6 DEF Counted
<1>3. ASSUME NEW u \in Users, CloseDelist(u) PROVE Goal
  <2>1. /\ userPc[u] = "delist" /\ state' = state
        /\ list' = list \ {userHandle[u]} /\ count' = count - 1
    BY <1>0, <1>3 DEF CloseDelist, userAt
  <2>2. /\ IsFiniteSet(list')
        /\ Cardinality(list') = IF userHandle[u] \in list THEN Cardinality(list) - 1
                                ELSE Cardinality(list)
    BY <1>0, <2>1, FS_RemoveElement
  <2>3. \A m \in list' : state'[m] # "INACTIVE"
    BY <1>0, <2>1 DEF ListInv
  <2>4. ListInv'
    BY <1>0, <2>1, <2>2, <2>3 DEF ListInv
  <2>5. Counted' => Counted /\ userHandle[u] \in list
    BY <1>0, <2>1, <2>2 DEF Counted
  <2> QED
    BY <1>0, <2>4, <2>5
<1>4. ASSUME NEW u \in Users, CloseManager(u) PROVE Goal
  <2>1. /\ userPc[u] = "unregister" /\ userHandle' = userHandle /\ UNCHANGED <<list, count>>
        /\ userPc'[u] = IF state[userHandle[u]] = "INACTIVE" THEN "testDevices" ELSE "delist"
        /\ userHandle[u] \in Managers
        /\ state' = [state EXCEPT ![userHandle[u]] = "INACTIVE"]
    BY <1>0, <1>4 DEF CloseManager, userAt
  <2>2. \A m \in list : state[m] # "INACTIVE" =>
          state'[m] # "INACTIVE" \/ \E v \in Users : userPc'[v] = "delist" /\ userHandle'[v] = m
    BY <1>0, <2>1 DEF IInv, TypeOK
  <2> QED
    BY <1>0, <1>1, <2>1, <2>2
<1>5. ASSUME NEW t \in Threads, Central(t) PROVE Goal
  <2>1. UNCHANGED <<list, count, userPc, userHandle>>
    BY <1>5 DEF Central, CentralLoop, CentralLoopManagers, PollLockManagers, PollLockDevices,
      InitialTest, InitialActivate, CentralPoll, CentralFind, CentralMatch, CentralLockHandle,
      CentralAttach, PollUnlock, FindUnlock, CentralWait, CentralCleanup, CentralExit,
      notCentral, userVars
  <2>2. state' = state \/ state' = [state EXCEPT ![target[t]] = "ACTIVE"]
    BY <1>5 DEF Central, CentralLoop, CentralLoopManagers, PollLockManagers, PollLockDevices,
      InitialTest, InitialActivate, CentralPoll, CentralFind, CentralMatch, CentralLockHandle,
      CentralAttach, PollUnlock, FindUnlock, CentralWait, CentralCleanup, CentralExit,
      notManager
  <2>3. \A m \in list : state[m] # "INACTIVE" => state'[m] # "INACTIVE"
    BY <1>0, <2>2 DEF IInv, TypeOK
  <2> QED
    BY <1>1, <2>1, <2>3
<1>6. ASSUME NEW u \in Users, Open(u), ~OpenManager(u) PROVE Goal
  <2>1. /\ UNCHANGED <<list, count, state>>
        /\ userPc[u] # "delist"
    BY <1>6 DEF Open, OpenLock, OpenDevice, OpenNotInactive, StartTest, StartCreate,
      StartSetStatus, OpenReturn, managerVars, userAt
  <2> QED
    BY <1>0, <1>1, <2>1
<1>7. ASSUME NEW u \in Users, Close(u), ~CloseManager(u), ~CloseDelist(u) PROVE Goal
  <2>1. /\ UNCHANGED <<list, count, state>>
        /\ userPc[u] # "delist"
    BY <1>7 DEF Close, CloseLock, CloseDevice, CloseDetach, CloseTestDevices,
      CloseTestManagers, JoinTest, JoinWait, JoinClear, CUSBUninit, CloseReturn, managerVars,
      userAt
  <2> QED
    BY <1>0, <1>1, <2>1
<1>8. ASSUME UNCHANGED <<list, count, state, userPc, userHandle>> PROVE Goal
  BY <1>1, <1>8
<1>9. ASSUME NEW d \in Pluggable, Plug(d) \/ Pull(d) PROVE Goal
  BY <1>8, <1>9 DEF Plug, Pull, userVars, managerVars
<1>10. CASE UNCHANGED vars
  BY <1>8, <1>10 DEF vars, userVars, managerVars
<1>11. CASE Next
  BY <1>2, <1>3, <1>4, <1>5, <1>6, <1>7, <1>9, <1>11 DEF Next
<1> QED
  BY <1>10, <1>11

\* A count that is right is 0 when no manager is listed.
LEMMA CountZero ==
  ASSUME ListInv, Counted
  PROVE  ActivePhidgetManagers = 0 <=> localPhidgetManagers = {}
  BY FS_EmptySet DEF ListInv, Counted

\* The handle of the only call is the only one that changes.
LEMMA RegisteredKeeps ==
  ASSUME OneCaller, Registered, NEW u \in Users, NEW h,
         userPc[u] # "idle" => userHandle[u] = h, userPc'[u] # "idle" => userHandle'[u] = h,
         \A g : g # h => (g \in active' <=> g \in active) /\ (g \in opened' <=> g \in opened),
         h \in active' =>
           \/ h \in opened' /\ userPc'[u] \notin CloseLabels \ {"unregister", "delist"}
           \/ userPc'[u] \in {"start", "create", "setStatus", "opened"},
         userPc'[u] \in {"start", "create", "setStatus"} => h \in active'
  PROVE  Registered'
  BY DEF OneCaller, Registered, CloseLabels

\* The calls that leave the threads alone, and what is to be shown of them.
LEMMA CallKeeps ==
  ASSUME OneCaller, RState, NEW u \in Users,
         UNCHANGED <<centralPc, threadHandle, threadStatus, leftEarly>>,
         userPc[u] # "setStatus", userPc'[u] # "setStatus",
         \A t \in Threads : centralPc[t] \in {"cleanup", "exit"} => leftEarly \/ active' = {},
         \/ active' = {}
         \/ leftEarly
         \/ \E t \in Threads : polls(t)
         \/ userPc'[u] \in {"start", "create"} /\ active' = {userHandle'[u]},
         userPc'[u] = "start" /\ active' = {userHandle'[u]} => NoneRuns,
         userPc'[u] \in {"create", "clear", "uninit"} => NoneRuns,
         active' = {} /\ userPc'[u] \in {"idle", "register", "opened", "closed"}
           => NoneRuns /\ ~usb',
         userPc'[u] = "testManagers" => ActiveDevices' = {},
         userPc'[u] \in {"join", "joining", "clear", "uninit"} => active' = {},
         userPc'[u] = "joining" => joining'[u] = threadHandle /\ joining'[u] \in Threads
  PROVE  OneThread' /\ Started' /\ Ended'
<1>1. \A v \in Users : v = u
  BY DEF OneCaller
<1>2. /\ NoneRuns' <=> NoneRuns
      /\ \A t \in Threads : (running(t)' <=> running(t)) /\ (polls(t)' <=> polls(t))
  BY DEF NoneRuns, running, polls
<1>3. threadStatus \/ NoneRuns
  BY <1>1 DEF RState, OneThread
<1>4. OneThread'
  BY <1>1, <1>2, <1>3 DEF RState, OneThread, running
<1>5. Started'
  BY <1>1, <1>2 DEF Started
<1>6. Ended'
  BY <1>1, <1>2 DEF Ended
<1> QED
  BY <1>4, <1>5, <1>6

LEMMA OpenRuns ==
  ASSUME OneCaller, RState, NEW u \in Users, Open(u)
  PROVE  Registered' /\ OneThread' /\ Started' /\ Ended'
<1> USE DEF userAt
<1>0. /\ \A v \in Users : v = u
      /\ DOMAIN userPc = Users /\ DOMAIN userHandle = Users /\ DOMAIN centralPc = Threads
      /\ userPc[u] # "idle" => userHandle[u] \in Handles
      /\ userPc[u] \in OpenLabels => userHandle[u] \notin opened
  BY DEF OneCaller, RState, IInv, TypeOK, CallState
<1>1. \A t \in Threads : centralPc[t] \in {"cleanup", "exit"} => leftEarly \/ active = {}
  BY DEF RState, OneThread
<1>2. ASSUME NEW h \in Handles, OpenLock(u, h)
      PROVE  Registered' /\ OneThread' /\ Started' /\ Ended'
  <2>1. /\ userPc[u] = "idle" /\ userPc'[u] = "register" /\ userHandle'[u] = h /\ h \notin opened
        /\ active' = active
        /\ UNCHANGED <<opened, centralPc, threadHandle, threadStatus, leftEarly, usb>>
    BY <1>0, <1>2 DEF OpenLock, deviceVars, threadVars, managerVars, active
  <2>2. Registered'
    BY <1>0, <2>1, RegisteredKeeps DEF RState, Registered, CloseLabels
  <2> QED
    BY <1>0, <1>1, <2>1, <2>2, CallKeeps DEF RState, Started, Ended
<1>3. CASE OpenDevice(u) \/ OpenManager(u)
  <2>1. /\ userPc[u] = "register" /\ userPc'[u] = "start" /\ userHandle' = userHandle
        /\ active' = active \cup {userHandle[u]}
        /\ UNCHANGED <<opened, centralPc, threadHandle, threadStatus, leftEarly, usb>>
    BY <1>0, <1>3 DEF OpenDevice, OpenManager, deviceVars, threadVars, managerVars, active
  <2>2. Registered'
    BY <1>0, <2>1, RegisteredKeeps DEF RState, Registered, CloseLabels
  <2>3. userHandle[u] \notin active
    BY <1>0, <2>1 DEF RState, Registered, OpenLabels
  <2>4. CASE active = {}
    <3>1. NoneRuns
      BY <1>0, <2>1, <2>4 DEF RState, Ended
    <3>2. \A t \in Threads : centralPc[t] \notin {"cleanup", "exit"}
      BY <3>1 DEF NoneRuns, running
    <3> QED
      BY <2>1, <2>2, <2>4, <3>1, <3>2, CallKeeps
  <2>5. CASE active # {}
    <3>1. leftEarly \/ \E t \in Threads : polls(t)
      BY <1>0, <2>1, <2>5 DEF RState, Started
    <3>2. active' # {userHandle[u]} /\ active' # {}
      BY <2>1, <2>3, <2>5
    <3>3. \A t \in Threads : centralPc[t] \in {"cleanup", "exit"} => leftEarly
      BY <1>1, <2>5
    <3> QED
      BY <2>1, <2>2, <3>1, <3>2, <3>3, CallKeeps
  <2> QED
    BY <2>4, <2>5
<1>4. CASE OpenNotInactive(u)
  <2>1. /\ userPc[u] = "register" /\ userPc'[u] = "opened" /\ userHandle' = userHandle
        /\ active' = active
        /\ UNCHANGED <<opened, centralPc, threadHandle, threadStatus, leftEarly, usb>>
    BY <1>0, <1>4 DEF OpenNotInactive, deviceVars, threadVars, managerVars, active
  <2>2. Registered'
    BY <1>0, <2>1, RegisteredKeeps DEF RState, Registered, CloseLabels
  <2> QED
    BY <1>0, <1>1, <2>1, <2>2, CallKeeps DEF RState, Started, Ended
<1>5. CASE StartTest(u)
  <2>1. /\ userPc[u] = "start" /\ userHandle' = userHandle
        /\ \/ userPc'[u] = "create" /\ (threadHandle = NoThread \/ ~threadStatus)
           \/ userPc'[u] = "opened" /\ threadStatus
        /\ active' = active
        /\ UNCHANGED <<opened, centralPc, threadHandle, threadStatus, leftEarly, usb>>
    BY <1>0, <1>5 DEF StartTest, deviceVars, threadVars, managerVars, active
  <2>2. Registered' /\ userHandle[u] \in active
    BY <1>0, <2>1, RegisteredKeeps DEF RState, Registered, CloseLabels
  <2>3. CASE userPc'[u] = "create" /\ (threadHandle = NoThread \/ ~threadStatus)
    <3>1. NoneRuns
      BY <1>0, <2>1, <2>3 DEF RState, OneThread
    <3>2. \A t \in Threads : ~polls(t)
      BY <3>1 DEF NoneRuns, running, polls, Polling, Scanning
    <3>3. active = {userHandle[u]} \/ leftEarly
      BY <1>0, <2>1, <2>2, <3>2 DEF RState, Started
    <3> QED
      BY <1>1, <2>1, <2>2, <2>3, <3>1, <3>3, CallKeeps
  <2>4. CASE userPc'[u] = "opened" /\ threadStatus
    <3>1. running(threadHandle) /\ threadHandle \in Threads
      BY <2>4 DEF RState, OneThread
    <3>2. active # {userHandle[u]}
      BY <2>1, <3>1 DEF RState, Started, NoneRuns
    <3>3. leftEarly \/ \E t \in Threads : polls(t)
      BY <1>0, <2>2, <3>2 DEF RState, Started
    <3> QED
      BY <1>1, <2>1, <2>2, <2>4, <3>3, CallKeeps
  <2> QED
    BY <2>1, <2>3, <2>4
<1>6. CASE StartCreate(u)
  <2>1. /\ userPc[u] = "create" /\ userPc'[u] = "setStatus" /\ userHandle' = userHandle
        /\ threadHandle' = created + 1 /\ created + 1 \in Threads /\ ~leftEarly'
        /\ centralPc' = [centralPc EXCEPT ![created + 1] = "loop"]
        /\ active' = active
        /\ UNCHANGED <<opened, threadStatus, usb>>
    BY <1>0, <1>6 DEF StartCreate, Threads, RState, IInv, TypeOK, active
  <2>2. Registered' /\ userHandle[u] \in active
    BY <1>0, <2>1, RegisteredKeeps DEF RState, Registered, CloseLabels
  <2>3. NoneRuns /\ ~threadStatus
    BY <2>1 DEF RState, Started, OneThread, NoneRuns
  <2>4. /\ \A t \in Threads \ {created + 1} :
             /\ ~running(t)'
             /\ centralPc'[t] \notin {"cleanup", "exit", "loopManagers"}
        /\ centralPc'[created + 1] = "loop"
    BY <1>0, <2>1, <2>3 DEF NoneRuns, running
  <2>5. OneThread'
    BY <1>0, <2>1, <2>3, <2>4 DEF OneThread
  <2>6. \E t \in Threads : polls(t)'
    BY <2>1, <2>4 DEF polls, Polling
  <2>7. Started' /\ Ended'
    BY <1>0, <2>1, <2>2, <2>6 DEF Started, Ended
  <2> QED
    BY <2>2, <2>5, <2>7
<1>7. CASE StartSetStatus(u)
  <2>1. /\ userPc[u] = "setStatus" /\ userPc'[u] = "opened" /\ userHandle' = userHandle
        /\ threadStatus' = TRUE
        /\ active' = active
        /\ UNCHANGED <<opened, centralPc, threadHandle, leftEarly, usb>>
    BY <1>0, <1>7 DEF StartSetStatus, deviceVars, managerVars, active
  <2>2. Registered' /\ userHandle[u] \in active
    BY <1>0, <2>1, RegisteredKeeps DEF RState, Registered, CloseLabels
  <2>3. \E t \in Threads : polls(t)
    BY <1>0, <2>1, <2>2 DEF RState, OneThread, Started
  <2>4. threadHandle \in Threads /\ running(threadHandle)
    BY <2>3 DEF RState, OneThread, polls, running, Polling, Scanning
  <2>5. \A t \in Threads : (running(t)' <=> running(t)) /\ (polls(t)' <=> polls(t))
    BY <2>1 DEF running, polls
  <2>6. OneThread'
    BY <1>0, <2>1, <2>4, <2>5 DEF RState, OneThread, running
  <2>7. Started' /\ Ended'
    BY <1>0, <2>1, <2>2, <2>3, <2>5 DEF Started, Ended
  <2> QED
    BY <2>2, <2>6, <2>7
<1>8. CASE OpenReturn(u)
  <2>1. /\ userPc[u] = "opened" /\ userPc'[u] = "idle" /\ opened' = opened \cup {userHandle[u]}
        /\ active' = active
        /\ UNCHANGED <<centralPc, threadHandle, threadStatus, leftEarly, usb>>
    BY <1>0, <1>8 DEF OpenReturn, deviceVars, threadVars, managerVars, active
  <2>2. Registered'
    BY <1>0, <2>1, RegisteredKeeps DEF RState, Registered, CloseLabels
  <2> QED
    BY <1>0, <1>1, <2>1, <2>2, CallKeeps DEF RState, Started, Ended
<1> QED
  BY <1>2, <1>3, <1>4, <1>5, <1>6, <1>7, <1>8 DEF Open

LEMMA CloseRuns ==
  ASSUME OneCaller, RState, NEW u \in Users, Close(u),
         CloseDelist(u) => userHandle[u] \in localPhidgetManagers
  PROVE  Registered' /\ OneThread' /\ Started' /\ Ended'
<1> USE DEF userAt
<1>0. /\ \A v \in Users : v = u
      /\ DOMAIN userPc = Users /\ DOMAIN userHandle = Users /\ DOMAIN centralPc = Threads
      /\ DOMAIN joining = Users
      /\ userPc[u] # "idle" => userHandle[u] \in Handles
      /\ userPc[u] \in CloseLabels => userHandle[u] \in opened
      /\ userHandle[u] \in Devices => userHandle[u] \notin localPhidgetManagers
      /\ userHandle[u] \in Managers => userHandle[u] \notin ActiveDevices
  BY Kinds DEF OneCaller, RState, IInv, TypeOK, CallState
<1>1. /\ \A t \in Threads : centralPc[t] \in {"cleanup", "exit"} => leftEarly \/ active = {}
      /\ userPc[u] \notin {"start", "create"} =>
           active = {} \/ leftEarly \/ \E t \in Threads : polls(t)
  BY <1>0 DEF RState, OneThread, Started
\* The close does not touch the threads, and unregisters nothing but its handle.
<1>2. ASSUME UNCHANGED <<opened, userHandle, centralPc, threadHandle, threadStatus, leftEarly>>,
             userPc[u] \in {"unregister", "detach", "delist", "testDevices", "testManagers",
                            "join", "joining", "uninit"},
             userPc'[u] \in CloseLabels \ {"unregister"},
             \/ active' = active
             \/ userHandle[u] \in active /\ active' = active \ {userHandle[u]},
             userPc'[u] # "delist" =>
               \/ userPc[u] \notin {"unregister", "delist"}
               \/ userHandle[u] \notin active',
             userPc'[u] \in {"clear", "uninit"} => NoneRuns,
             active' = {} /\ userPc'[u] = "closed" => NoneRuns /\ ~usb',
             userPc'[u] = "testManagers" => ActiveDevices' = {},
             userPc'[u] \in {"join", "joining", "clear", "uninit"} => active' = {},
             userPc'[u] = "joining" => joining'[u] = threadHandle /\ joining'[u] \in Threads
      PROVE  Registered' /\ OneThread' /\ Started' /\ Ended'
  <2>1. userHandle[u] \in opened
    BY <1>0, <1>2 DEF CloseLabels
  <2>2. userPc[u] \notin {"unregister", "delist"} => userHandle[u] \notin active
    BY <1>0, <1>2 DEF RState, Registered, CloseLabels
  <2>3. Registered'
    BY <1>0, <1>2, <2>1, <2>2, RegisteredKeeps DEF RState, CloseLabels
  <2>4. /\ userPc'[u] \notin {"idle", "register", "opened", "start", "create", "setStatus"}
        /\ active = {} => active' = {}
    BY <1>2 DEF CloseLabels
  <2> QED
    BY <1>1, <1>2, <2>3, <2>4, CallKeeps
<1>3. ASSUME NEW h \in Handles, CloseLock(u, h)
      PROVE  Registered' /\ OneThread' /\ Started' /\ Ended'
  <2>1. /\ userPc[u] = "idle" /\ userPc'[u] = "unregister" /\ userHandle'[u] = h /\ h \in opened
        /\ active' = active
        /\ UNCHANGED <<opened, centralPc, threadHandle, threadStatus, leftEarly, usb>>
    BY <1>0, <1>3 DEF CloseLock, deviceVars, threadVars, managerVars, active
  <2>2. Registered'
    BY <1>0, <2>1, RegisteredKeeps DEF RState, Registered, CloseLabels
  <2> QED
    BY <1>1, <2>1, <2>2, CallKeeps
<1>4. CASE CloseDevice(u)
  <2>1. /\ active' = active \ {userHandle[u]}
        /\ userPc[u] = "unregister" /\ userPc'[u] = "detach"
        /\ UNCHANGED <<opened, userHandle, centralPc, threadHandle, threadStatus, leftEarly>>
    BY <1>0, <1>4 DEF CloseDevice, deviceVars, threadVars, managerVars, active
  <2>2. active' = active \/ userHandle[u] \in active
    BY <2>1
  <2> QED
    BY <1>2, <2>1, <2>2 DEF CloseLabels
<1>5. CASE CloseDetach(u)
  <2>1. /\ active' = active /\ userPc[u] = "detach" /\ userPc'[u] = "testDevices"
        /\ UNCHANGED <<opened, userHandle, centralPc, threadHandle, threadStatus, leftEarly>>
    BY <1>0, <1>5 DEF CloseDetach, threadVars, managerVars, active
  <2> QED
    BY <1>2, <2>1 DEF CloseLabels
<1>6. CASE CloseManager(u)
  <2>1. /\ active' = active /\ userPc[u] = "unregister"
        /\ userPc'[u] = IF state[userHandle[u]] = "INACTIVE" THEN "testDevices" ELSE "delist"
        /\ userHandle[u] \in Managers
        /\ UNCHANGED <<opened, userHandle, centralPc, threadHandle, threadStatus, leftEarly>>
    BY <1>0, <1>6 DEF CloseManager, deviceVars, threadVars, managerVars, active
  <2>2. state[userHandle[u]] = "INACTIVE" => userHandle[u] \notin active
    BY <1>0, <2>1 DEF RState, ListInv, active
  <2> QED
    BY <1>2, <2>1, <2>2 DEF CloseLabels
<1>7. CASE CloseDelist(u)
  <2>1. /\ active' = active \ {userHandle[u]} /\ userHandle[u] \in active
        /\ userPc[u] = "delist" /\ userPc'[u] = "testDevices"
        /\ UNCHANGED <<opened, userHandle, centralPc, threadHandle, threadStatus, leftEarly>>
    <3>1. userHandle[u] \in Managers
      BY <1>7 DEF CloseDelist, RState, IInv, CallState
    <3> QED
      BY <1>0, <1>7, <3>1 DEF CloseDelist, deviceVars, threadVars, active
  <2> QED
    BY <1>2, <2>1 DEF CloseLabels
<1>8. CASE CloseTestDevices(u)
  <2>1. /\ active' = active /\ ActiveDevices' = ActiveDevices /\ userPc[u] = "testDevices"
        /\ userPc'[u] = IF ActiveDevices = {} THEN "testManagers" ELSE "closed"
        /\ UNCHANGED <<opened, userHandle, centralPc, threadHandle, threadStatus, leftEarly>>
    BY <1>0, <1>8 DEF CloseTestDevices, deviceVars, threadVars, managerVars, active
  <2>2. active = {} => ActiveDevices = {}
    BY DEF active
  <2> QED
    BY <1>2, <2>1, <2>2 DEF CloseLabels
<1>9. CASE CloseTestManagers(u)
  <2>1. /\ active' = active /\ userPc[u] = "testManagers"
        /\ userPc'[u] = IF ActivePhidgetManagers = 0 THEN "join" ELSE "closed"
        /\ UNCHANGED <<opened, userHandle, centralPc, threadHandle, threadStatus, leftEarly>>
    BY <1>0, <1>9 DEF CloseTestManagers, deviceVars, threadVars, managerVars, active
  <2>2. ActivePhidgetManagers = 0 <=> active = {}
    BY <2>1, CountZero DEF RState, Ended, active
  <2> QED
    BY <1>2, <2>1, <2>2 DEF CloseLabels
<1>10. CASE JoinTest(u)
  <2>1. /\ userPc[u] = "join" /\ active = {} /\ active' = active
        /\ UNCHANGED <<opened, userHandle, centralPc, threadHandle, threadStatus, leftEarly>>
        /\ userPc'[u] = IF threadHandle = NoThread THEN "uninit"
                        ELSE IF threadStatus THEN "joining" ELSE "clear"
        /\ joining'[u] = IF threadStatus THEN threadHandle ELSE NoThread
    BY <1>0, <1>10 DEF JoinTest, deviceVars, threadVars, managerVars, RState, Ended, active
  <2>2. threadHandle = NoThread \/ ~threadStatus => NoneRuns
    BY <1>0, <2>1 DEF RState, OneThread
  <2>3. threadStatus => threadHandle \in Threads
    BY DEF RState, OneThread
  <2> QED
    BY <1>2, <2>1, <2>2, <2>3 DEF CloseLabels
<1>11. CASE JoinWait(u)
  <2>1. /\ userPc[u] = "joining" /\ userPc'[u] = "clear" /\ active = {} /\ active' = active
        /\ UNCHANGED <<opened, userHandle, centralPc, threadHandle, threadStatus, leftEarly>>
        /\ centralPc[threadHandle] = "exited"
    BY <1>0, <1>11 DEF JoinWait, deviceVars, threadVars, managerVars, RState, Ended, active
  <2>2. NoneRuns
    BY <2>1 DEF RState, OneThread, NoneRuns, running
  <2> QED
    BY <1>2, <2>1, <2>2 DEF CloseLabels
<1>12. CASE JoinClear(u)
  <2>1. /\ userPc[u] = "clear" /\ userPc'[u] = "uninit" /\ active = {} /\ NoneRuns
        /\ active' = active
        /\ UNCHANGED <<opened, userHandle, centralPc, threadStatus, leftEarly>>
    BY <1>0, <1>12 DEF JoinClear, deviceVars, managerVars, RState, Ended, active
  <2>2. ~threadStatus
    BY <2>1 DEF RState, OneThread, NoneRuns
  <2>3. NoneRuns' /\ \A t \in Threads : ~running(t)'
    BY <2>1 DEF NoneRuns, running
  <2>4. Registered'
    BY <1>0, <2>1, RegisteredKeeps DEF RState, Registered, CloseLabels
  <2>5. OneThread' /\ Started' /\ Ended'
    BY <1>0, <2>1, <2>2, <2>3 DEF OneThread, Started, Ended
  <2> QED
    BY <2>4, <2>5
<1>13. CASE CUSBUninit(u)
  <2>1. /\ userPc[u] = "uninit" /\ userPc'[u] = "closed" /\ active = {} /\ NoneRuns /\ ~usb'
        /\ active' = active
        /\ UNCHANGED <<opened, userHandle, centralPc, threadHandle, threadStatus, leftEarly>>
    BY <1>0, <1>13 DEF CUSBUninit, deviceVars, threadVars, managerVars, RState, Ended, active
  <2> QED
    BY <1>2, <2>1 DEF CloseLabels
<1>14. CASE CloseReturn(u)
  <2>1. /\ userPc[u] = "closed" /\ userPc'[u] = "idle" /\ opened' = opened \ {userHandle[u]}
        /\ active' = active
        /\ UNCHANGED <<centralPc, threadHandle, threadStatus, leftEarly, usb>>
    BY <1>0, <1>14 DEF CloseReturn, deviceVars, threadVars, managerVars, active
  <2>2. Registered'
    BY <1>0, <2>1, RegisteredKeeps DEF RState, Registered, CloseLabels
  <2>3. active = {} => NoneRuns /\ ~usb
    BY <1>0, <2>1 DEF RState, Ended
  <2> QED
    BY <1>1, <2>1, <2>2, <2>3, CallKeeps
<1> QED
  BY <1>3, <1>4, <1>5, <1>6, <1>7, <1>8, <1>9, <1>10, <1>11, <1>12, <1>13, <1>14 DEF Close

LEMMA CentralRunsOn ==
  ASSUME OneCaller, RState, NEW t \in Threads, Central(t)
  PROVE  Registered' /\ OneThread' /\ Started' /\ Ended'
<1> USE DEF centralAt
<1> DEFINE Steps == /\ ~CentralExit(t) /\ ~CentralLoop(t) /\ ~CentralLoopManagers(t)
                    /\ ~CentralCleanup(t)
<1>1. /\ UNCHANGED <<userPc, userHandle, joining, threadHandle, opened, ActiveDevices,
                     localPhidgetManagers>>
      /\ active' = active
  BY DEF Central, CentralLoop, CentralLoopManagers, PollLockManagers, PollLockDevices,
    InitialTest, InitialActivate, CentralPoll, CentralFind, CentralMatch, CentralLockHandle,
    CentralAttach, PollUnlock, FindUnlock, CentralWait, CentralCleanup, CentralExit,
    notCentral, userVars, active
<1>2. Registered'
  BY <1>1 DEF RState, Registered
<1>3. /\ DOMAIN centralPc' = Threads
      /\ \A s \in Threads \ {t} : centralPc'[s] = centralPc[s]
  BY DEF RState, IInv, TypeOK, Central, CentralLoop, CentralLoopManagers, PollLockManagers,
    PollLockDevices, InitialTest, InitialActivate, CentralPoll, CentralFind, CentralMatch,
    CentralLockHandle, CentralAttach, PollUnlock, FindUnlock, CentralWait, CentralCleanup,
    CentralExit
<1>4. running(t)
  BY DEF running, Central, CentralLoop, CentralLoopManagers, PollLockManagers, PollLockDevices,
    InitialTest, InitialActivate, CentralPoll, CentralFind, CentralMatch, CentralLockHandle,
    CentralAttach, PollUnlock, FindUnlock, CentralWait, CentralCleanup, CentralExit
<1>5. ~NoneRuns /\ t = threadHandle /\ \A s \in Threads \ {t} : ~running(s)
  BY <1>4 DEF NoneRuns, RState, OneThread
<1>6. \A s \in Threads \ {t} : ~running(s)' /\ ~polls(s)'
  BY <1>3, <1>5 DEF running, polls, Polling, Scanning
<1>7. \A u \in Users : /\ userPc[u] \notin {"create", "clear", "uninit"}
                       /\ ~(userPc[u] = "start" /\ active = {userHandle[u]})
  BY <1>5 DEF RState, Started, Ended
<1>8. ~(active = {} /\ \A u \in Users : userPc[u] \in {"idle", "register", "opened", "closed"})
  BY <1>5 DEF RState, Ended
<1>9. Ended'
  <2>1. ~(active' = {} /\ \A u \in Users : userPc'[u] \in {"idle", "register", "opened", "closed"})
    BY <1>1, <1>8
  <2>2. \A u \in Users :
           /\ userPc'[u] \notin {"clear", "uninit"}
           /\ userPc'[u] = "testManagers" => ActiveDevices' = {}
           /\ userPc'[u] \in {"join", "joining"} => active' = {}
           /\ userPc'[u] = "joining" => joining'[u] = threadHandle' /\ joining'[u] \in Threads
    BY <1>1, <1>7 DEF RState, Ended
  <2> QED
    BY <2>1, <2>2 DEF Ended
\* A call that sets the status of the thread has registered its handle.
<1>10. \A u \in Users : userPc[u] = "setStatus" =>
         /\ ~leftEarly
         /\ userHandle[u] \in active /\ userHandle[u] \in Handles
         /\ centralPc[t] = "loopManagers" => userHandle[u] \in Managers
  BY DEF RState, OneThread, Registered, IInv, CallState
\* The thread goes on polling, with or without a look at the condition.
<1>11. ASSUME threadStatus' = threadStatus, leftEarly' = leftEarly, polls(t)',
              centralPc'[t] = "loopManagers" => ActiveDevices = {}
       PROVE  OneThread' /\ Started'
  <2>1. running(t)' /\ centralPc'[t] \notin {"cleanup", "exit"}
    BY <1>11 DEF running, polls, Polling, Scanning
  <2>2. ASSUME NEW u \in Users, userPc[u] = "setStatus", ActiveDevices = {}
        PROVE  userHandle[u] \in Managers
    BY <1>10, <2>2 DEF active, RState, IInv, TypeOK
  <2>3. \A s \in Threads \ {t} : centralPc'[s] \notin {"cleanup", "exit", "loopManagers"}
    BY <1>6 DEF running
  <2>4. OneThread'
    BY <1>1, <1>5, <1>6, <1>10, <1>11, <2>1, <2>2, <2>3 DEF RState, OneThread
  <2>5. Started'
    BY <1>1, <1>7, <1>11 DEF Started
  <2> QED
    BY <2>4, <2>5
<1>12. CASE CentralExit(t)
  <2>1. /\ centralPc[t] = "exit" /\ centralPc'[t] = "exited" /\ threadStatus' = FALSE
        /\ leftEarly' = leftEarly
    BY <1>12 DEF CentralExit, RState, IInv, TypeOK, notManager
  <2>2. (leftEarly \/ active = {}) /\ NoneRuns'
    BY <1>6, <2>1 DEF RState, OneThread, NoneRuns, running
  <2>3. OneThread'
    BY <1>1, <1>3, <1>10, <2>1, <2>2 DEF OneThread, NoneRuns, running
  <2>4. Started'
    BY <1>1, <1>7, <2>1, <2>2 DEF Started
  <2> QED
    BY <1>2, <1>9, <2>3, <2>4
<1>13. CASE CentralLoop(t)
  <2>1. /\ threadStatus' = threadStatus /\ leftEarly' = leftEarly
        /\ centralPc'[t] = IF ActiveDevices = {} THEN "loopManagers" ELSE "poll"
    BY <1>13 DEF CentralLoop, RState, IInv, TypeOK, notManager
  <2>2. polls(t)'
    BY <2>1 DEF polls, Polling
  <2> QED
    BY <1>2, <1>9, <1>11, <2>1, <2>2
<1>14. CASE CentralLoopManagers(t)
  <2>1. /\ threadStatus' = threadStatus
        /\ centralPc[t] = "loopManagers"
        /\ centralPc'[t] = IF ActivePhidgetManagers = 0 THEN "cleanup" ELSE "poll"
        /\ leftEarly' = (leftEarly \/ (ActivePhidgetManagers = 0 /\ ActiveDevices # {}))
    BY <1>14 DEF CentralLoopManagers, RState, IInv, TypeOK
  <2>2. ActivePhidgetManagers = 0 <=> localPhidgetManagers = {}
    BY CountZero DEF RState
  <2>3. CASE ActivePhidgetManagers # 0
    <3>1. polls(t)' /\ leftEarly' = leftEarly /\ centralPc'[t] = "poll"
      BY <2>1, <2>3 DEF polls, Polling, RState, IInv, TypeOK
    <3> QED
      BY <1>2, <1>9, <1>11, <2>1, <3>1
  <2>4. CASE ActivePhidgetManagers = 0
    <3>1. leftEarly' \/ active = {}
      BY <2>1, <2>2, <2>4 DEF active
    <3>2. \A u \in Users : userPc[u] # "setStatus"
      <4>1. ASSUME NEW u \in Users, userPc[u] = "setStatus" PROVE FALSE
        <5>1. userHandle[u] \in Managers /\ userHandle[u] \in active
          BY <1>10, <2>1, <4>1
        <5>2. userHandle[u] \notin ActiveDevices
          BY <5>1, Kinds DEF RState, IInv, TypeOK
        <5> QED
          BY <2>2, <2>4, <5>1, <5>2 DEF active
      <4> QED
        BY <4>1
    <3>3. running(t)' /\ centralPc'[t] = "cleanup"
      BY <2>1, <2>4 DEF running
    <3>4. \A s \in Threads \ {t} : centralPc'[s] \notin {"cleanup", "exit"}
      BY <1>6 DEF running
    <3>5. OneThread'
      BY <1>1, <1>5, <1>6, <2>1, <3>1, <3>2, <3>3, <3>4 DEF RState, OneThread
    <3>6. Started'
      BY <1>1, <1>7, <3>1 DEF Started
    <3> QED
      BY <1>2, <1>9, <3>5, <3>6
  <2> QED
    BY <2>3, <2>4
<1>15. CASE CentralCleanup(t)
  <2>1. /\ threadStatus' = threadStatus /\ leftEarly' = leftEarly
        /\ centralPc[t] = "cleanup" /\ centralPc'[t] = "exit"
    BY <1>15 DEF CentralCleanup, RState, IInv, TypeOK, notManager
  <2>2. running(t)' /\ (leftEarly \/ active = {})
    BY <2>1 DEF running, RState, OneThread
  <2>3. \A s \in Threads \ {t} : centralPc'[s] \notin {"cleanup", "exit"}
    BY <1>6 DEF running
  <2>4. \A u \in Users : userPc[u] # "setStatus"
    BY <1>10, <2>2
  <2>5. OneThread'
    BY <1>1, <1>5, <1>6, <2>1, <2>2, <2>3, <2>4 DEF RState, OneThread
  <2>6. Started'
    BY <1>1, <1>7, <2>1, <2>2 DEF Started
  <2> QED
    BY <1>2, <1>9, <2>5, <2>6
<1>16. CASE Steps
  <2>1. /\ threadStatus' = threadStatus /\ leftEarly' = leftEarly
        /\ polls(t)' /\ centralPc'[t] # "loopManagers"
    BY <1>16 DEF Central, PollLockManagers, PollLockDevices, InitialTest, InitialActivate,
      CentralPoll, CentralFind, CentralMatch, CentralLockHandle, CentralAttach, PollUnlock,
      FindUnlock, CentralWait, notManager, RState, IInv, TypeOK, polls, Polling, Scanning
  <2> QED
    BY <1>2, <1>9, <1>11, <2>1
<1> QED
  BY <1>12, <1>13, <1>14, <1>15, <1>16

LEMMA RunsInductive ==
  ASSUME OneCaller
  PROVE  RInv /\ [Next]_vars => RInv'
<1> SUFFICES ASSUME RInv, [Next]_vars PROVE RInv'
  OBVIOUS
<1>1. IInv'
  BY OpenStep, CloseStep, CentralStep, BusStep, Stutter DEF Next, RInv
<1>2. /\ ListInv'
      /\ Counted' => Counted
      /\ Counted' => \A u \in Users : CloseDelist(u) => userHandle[u] \in localPhidgetManagers
  BY CountKeeps DEF RInv
<1> SUFFICES ASSUME Counted' PROVE Registered' /\ OneThread' /\ Started' /\ Ended'
  BY <1>1, <1>2 DEF RInv, RState
<1>3. RState
  BY <1>2 DEF RInv
<1>4. ASSUME UNCHANGED <<userPc, userHandle, joining, threadHandle, threadStatus, ActiveDevices,
                         localPhidgetManagers, leftEarly, opened, centralPc, usb>>
      PROVE  Registered' /\ OneThread' /\ Started' /\ Ended'
  BY <1>3, <1>4 DEF RState, Registered, OneThread, Started, Ended, NoneRuns, running, polls,
    active
<1>5. ASSUME NEW d \in Pluggable, Plug(d) \/ Pull(d)
      PROVE  Registered' /\ OneThread' /\ Started' /\ Ended'
  BY <1>4, <1>5 DEF Plug, Pull, deviceVars, userVars, threadVars, managerVars
<1>6. CASE UNCHANGED vars
  BY <1>4, <1>6 DEF vars, deviceVars, userVars, threadVars, managerVars
<1>7. CASE Next
  BY <1>2, <1>3, <1>5, <1>7, OpenRuns, CloseRuns, CentralRunsOn DEF Next
<1> QED
  BY <1>6, <1>7

LEMMA RunsBegin == Init => RInv
<1> SUFFICES ASSUME Init PROVE RInv
  OBVIOUS
<1>1. NoneRuns
  BY DEF Init, NoneRuns, running
<1>2. Registered /\ Started /\ Ended
  BY <1>1 DEF Init, Registered, Started, Ended, active
<1>3. OneThread
  BY <1>1 DEF Init, OneThread, NoneRuns
<1>4. ListInv
  BY FS_EmptySet DEF Init, ListInv
<1> QED
  BY <1>2, <1>3, <1>4, InitInvariant DEF RInv, RState

\* With one caller, StartCentralThread has a thread in its loop whenever a device
\* or a manager is registered, while the managers are counted right and the last
\* thread did not leave its loop early: the close of the last handle has joined
\* the one before, so that its thread_status does not say that a thread on its
\* way out runs.
THEOREM RunsWhileRegistered ==
  ASSUME OneCaller
  PROVE  Spec => []CentralRuns
<1>1. RInv => CentralRuns
  <2> SUFFICES ASSUME RInv, Counted, ~leftEarly, Quiet, active # {}
               PROVE  \E t \in Threads : polls(t)
    BY DEF CentralRuns, LoopsWhileOpen, polls, active
  <2> QED
    BY DEF RInv, RState, Started, Quiet
<1> QED
  BY <1>1, RunsBegin, RunsInductive, PTL DEF Spec

\* With one caller, and while the managers are counted right, no central thread
\* and no libusb is left once the last handle is closed: JoinCentralThread comes
\* before CUSBUninit, and no thread that polls later initialises libusb again.
THEOREM GoneAfterLast ==
  ASSUME OneCaller
  PROVE  Spec => []CentralGone
<1>1. RInv => CentralGone
  <2> SUFFICES ASSUME RInv, Counted, Quiet, opened = {}
               PROVE  ~usb /\ NoneRuns
    BY DEF CentralGone, NoneRuns
  <2>1. active = {}
    BY DEF RInv, RState, Registered, Quiet
  <2> QED
    BY <2>1 DEF RInv, RState, Ended, Quiet
<1> QED
  BY <1>1, RunsBegin, RunsInductive, PTL DEF Spec
=============================================================================
