--------------------------- MODULE CentralThread ---------------------------
(***************************************************************************)
(* The life of the central thread: CPhidget_open and CPhidget_close start   *)
(* it with the first opened handle and join it with the last             *)
(* (StartCentralThread, JoinCentralThread); meanwhile it polls the USB bus  *)
(* and attaches the opened handles (CPhidgetManager_poll,                  *)
(* findActiveDevices).                                                     *)
(*                                                                         *)
(* A handle may be a manager: CPhidgetManager_open and _close keep a list,  *)
(* a count and a state for it, under managerLock but for the state that a   *)
(* close writes.  Each device is opened by its serial number, so a handle   *)
(* and its device share a name.  The read and write threads and a failed    *)
(* open of the device are OutputPacket's, the events EventDispatch's.      *)
(* The wait of 250 ms on checkForDevicesEvent ends whatever happens, so the  *)
(* event has no variable.                                                  *)
(***************************************************************************)
EXTENDS Integers, FiniteSets

CONSTANTS
  Users,       \* the threads that open and close handles
  Handles,     \* devices and managers
  Managers,    \* those that are managers
  Pluggable,   \* the devices the environment may plug in and pull
  MaxOpens,    \* bound: CPhidget_open calls
  MaxThreads,  \* bound: central threads ever created
  NoThread, NoHandle

Threads == 1 .. MaxThreads

Devices == Handles \ Managers

ASSUME PluggableAssumption == Managers \subseteq Handles /\ Pluggable \subseteq Devices
ASSUME NamesAssumption ==
  /\ NoHandle \notin Handles
  /\ NoThread \notin Users \cup Threads
  /\ Users \cap Threads = {}
ASSUME BoundsAssumption == MaxOpens \in Nat /\ MaxThreads \in Nat

VARIABLES
  ActiveDevices, \* the devices that are opened and not yet closed
  ActivePhidgetManagers, localPhidgetManagers, \* the managers' count and list
  state,         \* per manager: phidm->state
  managerLock,
  opened,        \* the handles with PHIDGET_OPENED_FLAG
  attached,      \* the handles with PHIDGET_ATTACHED_FLAG
  openCloseLock, \* per handle: its holder
  plugged,       \* the devices on the bus
  seen,          \* AttachedDevices
  attachedDevicesLock,
  usb,           \* libusbContext # NULL
  threadHandle,  \* CentralThread.m_ThreadHandle
  threadStatus,  \* CentralThread.thread_status
  centralPc, scan, todo, target,   \* per central thread
  userPc, userHandle, joining,     \* per user
  opens, created,                  \* bounded counters
  leftEarly      \* history: the last thread created left its loop although a
                 \* device was registered between its two reads of the condition

deviceVars == <<attached, seen, attachedDevicesLock, centralPc, scan, todo,
                target>>
userVars   == <<userPc, userHandle, joining, opens>>
threadVars == <<threadHandle, threadStatus, created>>
managerVars == <<ActivePhidgetManagers, localPhidgetManagers, state, managerLock,
                 leftEarly>>
vars == <<deviceVars, userVars, threadVars, managerVars, ActiveDevices, opened,
          openCloseLock, plugged, usb>>

\* What a user's step and a central thread's step leave alone.
notUser    == <<seen, attachedDevicesLock, scan, todo, target, plugged>>
notCentral == <<userVars, threadHandle, created, ActiveDevices, opened, plugged,
                ActivePhidgetManagers, localPhidgetManagers>>
notManager == <<state, managerLock, leftEarly>>

Init ==
  /\ ActivePhidgetManagers = 0 /\ localPhidgetManagers = {}
  /\ state = [m \in Managers |-> "INACTIVE"]
  /\ managerLock = NoThread /\ leftEarly = FALSE
  /\ ActiveDevices = {} /\ opened = {} /\ attached = {} /\ seen = {}
  /\ openCloseLock = [h \in Handles |-> NoThread]
  /\ plugged \in SUBSET Pluggable
  /\ attachedDevicesLock = NoThread /\ usb = FALSE
  /\ threadHandle = NoThread /\ threadStatus = FALSE
  /\ centralPc = [t \in Threads |-> "none"]
  /\ scan = [t \in Threads |-> "new"]
  /\ todo = [t \in Threads |-> {}]
  /\ target = [t \in Threads |-> NoHandle]
  /\ userPc = [u \in Users |-> "idle"]
  /\ userHandle = [u \in Users |-> NoHandle]
  /\ joining = [u \in Users |-> NoThread]
  /\ opens = 0 /\ created = 0

userAt(u, label, next) == userPc[u] = label /\ userPc' = [userPc EXCEPT ![u] = next]
centralAt(t, label, next) ==
  centralPc[t] = label /\ centralPc' = [centralPc EXCEPT ![t] = next]

acquire(h, holder) ==
  /\ openCloseLock[h] = NoThread
  /\ openCloseLock' = [openCloseLock EXCEPT ![h] = holder]
release(h) == openCloseLock' = [openCloseLock EXCEPT ![h] = NoThread]

-----------------------------------------------------------------------------
(* CPhidget_open and CPhidgetManager_open: openCloseLock is held            *)
(* throughout; a second open of an opened handle changes nothing.          *)

OpenLock(u, h) ==
  /\ userAt(u, "idle", "register") /\ h \notin opened /\ opens < MaxOpens
  /\ acquire(h, u)
  /\ userHandle' = [userHandle EXCEPT ![u] = h]
  /\ opens' = opens + 1
  /\ UNCHANGED <<deviceVars, threadVars, managerVars, ActiveDevices, opened,
                 plugged, usb, joining>>

OpenDevice(u) ==
  /\ userAt(u, "register", "start") /\ userHandle[u] \in Devices
  /\ ActiveDevices' = ActiveDevices \cup {userHandle[u]}
  /\ UNCHANGED <<deviceVars, threadVars, managerVars, opened, openCloseLock,
                 plugged, usb, userHandle, joining, opens>>

\* The manager is listed, counted and given the initial events of the next poll.
OpenManager(u) ==
  /\ userAt(u, "register", "start") /\ userHandle[u] \in Managers
  /\ state[userHandle[u]] = "INACTIVE" /\ managerLock = NoThread
  /\ localPhidgetManagers' = localPhidgetManagers \cup {userHandle[u]}
  /\ state' = [state EXCEPT ![userHandle[u]] = "ACTIVATING"]
  /\ ActivePhidgetManagers' = ActivePhidgetManagers + 1
  /\ UNCHANGED <<deviceVars, threadVars, managerLock, leftEarly, ActiveDevices,
                 opened, openCloseLock, plugged, usb, userHandle, joining, opens>>

\* A closed manager that a poll made active again: nothing is listed, counted
\* or started.
OpenNotInactive(u) ==
  /\ userAt(u, "register", "opened") /\ userHandle[u] \in Managers
  /\ state[userHandle[u]] # "INACTIVE"
  /\ UNCHANGED <<deviceVars, threadVars, managerVars, ActiveDevices, opened,
                 openCloseLock, plugged, usb, userHandle, joining, opens>>

\* StartCentralThread: a thread that seems to run is only signalled.
StartTest(u) ==
  /\ \/ /\ threadHandle = NoThread \/ ~threadStatus
        /\ userAt(u, "start", "create")
     \/ /\ threadHandle # NoThread /\ threadStatus
        /\ userAt(u, "start", "opened")
  /\ UNCHANGED <<deviceVars, threadVars, managerVars, ActiveDevices, opened,
                 openCloseLock, plugged, usb, userHandle, joining, opens>>

StartCreate(u) ==
  /\ userAt(u, "create", "setStatus") /\ created < MaxThreads
  /\ created' = created + 1
  /\ threadHandle' = created + 1
  /\ centralPc' = [centralPc EXCEPT ![created + 1] = "loop"]
  /\ leftEarly' = FALSE
  /\ UNCHANGED <<notUser, ActivePhidgetManagers, localPhidgetManagers, state,
                 managerLock, ActiveDevices, opened, attached, openCloseLock,
                 usb, threadStatus, userHandle, joining, opens>>

\* thread_status = TRUE, after the thread may have run.
StartSetStatus(u) ==
  /\ userAt(u, "setStatus", "opened")
  /\ threadStatus' = TRUE
  /\ UNCHANGED <<deviceVars, managerVars, ActiveDevices, opened, openCloseLock,
                 plugged, usb, threadHandle, userHandle, joining, opens, created>>

OpenReturn(u) ==
  /\ userAt(u, "opened", "idle")
  /\ opened' = opened \cup {userHandle[u]}
  /\ release(userHandle[u])
  /\ userHandle' = [userHandle EXCEPT ![u] = NoHandle]
  /\ UNCHANGED <<deviceVars, threadVars, managerVars, ActiveDevices, plugged,
                 usb, joining, opens>>

Open(u) ==
  \/ \E h \in Handles : OpenLock(u, h)
  \/ OpenDevice(u) \/ OpenManager(u) \/ OpenNotInactive(u)
  \/ StartTest(u) \/ StartCreate(u) \/ StartSetStatus(u) \/ OpenReturn(u)

-----------------------------------------------------------------------------
(* CPhidget_close and CPhidgetManager_close.                               *)

CloseLock(u, h) ==
  /\ userAt(u, "idle", "unregister") /\ h \in opened
  /\ acquire(h, u)
  /\ userHandle' = [userHandle EXCEPT ![u] = h]
  /\ UNCHANGED <<deviceVars, threadVars, managerVars, ActiveDevices, opened,
                 plugged, usb, joining, opens>>

CloseDevice(u) ==
  /\ userAt(u, "unregister", "detach") /\ userHandle[u] \in Devices
  /\ ActiveDevices' = ActiveDevices \ {userHandle[u]}
  /\ UNCHANGED <<deviceVars, threadVars, managerVars, opened, openCloseLock,
                 plugged, usb, userHandle, joining, opens>>

\* Stops the handle's threads and closes the device, if it is attached.
CloseDetach(u) ==
  /\ userAt(u, "detach", "testDevices")
  /\ attached' = attached \ {userHandle[u]}
  /\ UNCHANGED <<notUser, threadVars, managerVars, ActiveDevices, opened,
                 openCloseLock, usb, centralPc, userHandle, joining, opens>>

\* The state of a manager is tested and written without managerLock ...
CloseManager(u) ==
  /\ userHandle[u] \in Managers
  /\ userAt(u, "unregister",
            IF state[userHandle[u]] = "INACTIVE" THEN "testDevices" ELSE "delist")
  /\ state' = [state EXCEPT ![userHandle[u]] = "INACTIVE"]
  /\ UNCHANGED <<deviceVars, threadVars, ActivePhidgetManagers,
                 localPhidgetManagers, managerLock, leftEarly, ActiveDevices,
                 opened, openCloseLock, plugged, usb, userHandle, joining, opens>>

\* ... and its list and count under it.
CloseDelist(u) ==
  /\ userAt(u, "delist", "testDevices") /\ managerLock = NoThread
  /\ ActivePhidgetManagers' = ActivePhidgetManagers - 1
  /\ localPhidgetManagers' = localPhidgetManagers \ {userHandle[u]}
  /\ UNCHANGED <<deviceVars, threadVars, state, managerLock, leftEarly,
                 ActiveDevices, opened, openCloseLock, plugged, usb, userHandle,
                 joining, opens>>

\* The test of ActiveDevices and ActivePhidgetManagers, without their locks.
CloseTestDevices(u) ==
  /\ userAt(u, "testDevices",
            IF ActiveDevices = {} THEN "testManagers" ELSE "closed")
  /\ UNCHANGED <<deviceVars, threadVars, managerVars, ActiveDevices, opened,
                 openCloseLock, plugged, usb, userHandle, joining, opens>>

\* Mutant: the last close leaves the central thread to itself.
CloseWithoutJoin(u) ==
  /\ userAt(u, "testManagers", "closed")
  /\ UNCHANGED <<deviceVars, threadVars, managerVars, ActiveDevices, opened,
                 openCloseLock, plugged, usb, userHandle, joining, opens>>

CloseTestManagers(u) ==
  /\ userAt(u, "testManagers",
            IF ActivePhidgetManagers = 0 THEN "join" ELSE "closed")
  /\ UNCHANGED <<deviceVars, threadVars, managerVars, ActiveDevices, opened,
                 openCloseLock, plugged, usb, userHandle, joining, opens>>

\* JoinCentralThread up to pthread_join.
JoinTest(u) ==
  /\ userAt(u, "join", IF threadHandle = NoThread THEN "uninit"
                       ELSE IF threadStatus THEN "joining" ELSE "clear")
  /\ joining' = [joining EXCEPT ![u] = IF threadStatus THEN threadHandle
                                               ELSE NoThread]
  /\ UNCHANGED <<deviceVars, threadVars, managerVars, ActiveDevices, opened,
                 openCloseLock, plugged, usb, userHandle, opens>>

JoinWait(u) ==
  /\ userAt(u, "joining", "clear")
  /\ centralPc[joining[u]] = "exited"
  /\ joining' = [joining EXCEPT ![u] = NoThread]
  /\ UNCHANGED <<deviceVars, threadVars, managerVars, ActiveDevices, opened,
                 openCloseLock, plugged, usb, userHandle, opens>>

JoinClear(u) ==
  /\ userAt(u, "clear", "uninit")
  /\ threadHandle' = NoThread
  /\ UNCHANGED <<deviceVars, managerVars, ActiveDevices, opened, openCloseLock,
                 plugged, usb, threadStatus, userHandle, joining, opens, created>>

CUSBUninit(u) ==
  /\ userAt(u, "uninit", "closed")
  /\ usb' = FALSE
  /\ UNCHANGED <<deviceVars, threadVars, managerVars, ActiveDevices, opened,
                 openCloseLock, plugged, userHandle, joining, opens>>

CloseReturn(u) ==
  /\ userAt(u, "closed", "idle")
  /\ opened' = opened \ {userHandle[u]}
  /\ release(userHandle[u])
  /\ userHandle' = [userHandle EXCEPT ![u] = NoHandle]
  /\ UNCHANGED <<deviceVars, threadVars, managerVars, ActiveDevices, plugged,
                 usb, joining, opens>>

Close(u) ==
  \/ \E h \in Handles : CloseLock(u, h)
  \/ CloseDevice(u) \/ CloseDetach(u) \/ CloseManager(u) \/ CloseDelist(u)
  \/ CloseTestDevices(u) \/ CloseTestManagers(u) \/ JoinTest(u) \/ JoinWait(u)
  \/ JoinClear(u) \/ CUSBUninit(u) \/ CloseReturn(u)

-----------------------------------------------------------------------------
(* CentralThreadFunction.                                                  *)

\* Mutant: the loop does not look at ActiveDevices.
LoopForever(t) ==
  /\ centralAt(t, "loop", "poll")
  /\ UNCHANGED <<notCentral, notManager, attached, openCloseLock, seen,
                 attachedDevicesLock, usb, threadStatus, scan, todo, target>>

\* while(ActiveDevices || ActivePhidgetManagers), read without their locks.
CentralLoop(t) ==
  /\ centralAt(t, "loop", IF ActiveDevices = {} THEN "loopManagers" ELSE "poll")
  /\ UNCHANGED <<notCentral, notManager, attached, openCloseLock, seen,
                 attachedDevicesLock, usb, threadStatus, scan, todo, target>>

CentralLoopManagers(t) ==
  /\ centralAt(t, "loopManagers",
               IF ActivePhidgetManagers = 0 THEN "cleanup" ELSE "poll")
  /\ leftEarly' = (leftEarly \/ (ActivePhidgetManagers = 0 /\ ActiveDevices # {}))
  /\ UNCHANGED <<notCentral, state, managerLock, attached, openCloseLock, seen,
                 attachedDevicesLock, usb, threadStatus, scan, todo, target>>

\* CPhidgetManager_poll takes managerLock, then attachedDevicesLock.
PollLockManagers(t) ==
  /\ centralAt(t, "poll", "pollLock") /\ managerLock = NoThread
  /\ managerLock' = t
  /\ UNCHANGED <<notCentral, state, leftEarly, attached, openCloseLock, seen,
                 attachedDevicesLock, usb, threadStatus, scan, todo, target>>

PollLockDevices(t) ==
  /\ centralAt(t, "pollLock", "initial") /\ attachedDevicesLock = NoThread
  /\ attachedDevicesLock' = t
  /\ todo' = [todo EXCEPT ![t] = localPhidgetManagers]
  /\ UNCHANGED <<notCentral, notManager, attached, openCloseLock, seen, usb,
                 threadStatus, scan, target>>

\* sendInitialEvents tests the state of each manager, then writes it.
InitialTest(t, m) ==
  /\ m \in todo[t]
  /\ todo' = [todo EXCEPT ![t] = @ \ {m}]
  /\ \/ /\ state[m] = "ACTIVATING"
        /\ centralAt(t, "initial", "activate")
        /\ target' = [target EXCEPT ![t] = m]
     \/ /\ state[m] # "ACTIVATING"
        /\ centralAt(t, "initial", "initial")
        /\ UNCHANGED target
  /\ UNCHANGED <<notCentral, notManager, attached, openCloseLock, seen,
                 attachedDevicesLock, usb, threadStatus, scan>>

InitialActivate(t) ==
  /\ centralAt(t, "activate", "initial")
  /\ state' = [state EXCEPT ![target[t]] = "ACTIVE"]
  /\ target' = [target EXCEPT ![t] = NoHandle]
  /\ UNCHANGED <<notCentral, managerLock, leftEarly, attached, openCloseLock,
                 seen, attachedDevicesLock, usb, threadStatus, scan, todo>>

\* The rest of the poll: initialises libusb, looks for a handle for each new
\* device, and detaches the registered handles whose devices are gone (other
\* devices, so the order of the two does not matter).
CentralPoll(t) ==
  /\ centralAt(t, "initial", "match") /\ todo[t] = {}
  /\ usb' = TRUE
  /\ seen' = plugged
  /\ attached' = attached \ ((seen \ plugged) \cap ActiveDevices)
  /\ scan' = [scan EXCEPT ![t] = "new"]
  /\ todo' = [todo EXCEPT ![t] = plugged \ seen]
  /\ UNCHANGED <<notCentral, notManager, openCloseLock, attachedDevicesLock,
                 threadStatus, target>>

\* Mutants: attachedDevicesLock is not waited for; no device is looked at.
FindUnlocked(t) ==
  /\ centralAt(t, "find", "match")
  /\ attachedDevicesLock' = t
  /\ scan' = [scan EXCEPT ![t] = "all"]
  /\ todo' = [todo EXCEPT ![t] = seen]
  /\ UNCHANGED <<notCentral, notManager, attached, openCloseLock, seen, usb,
                 threadStatus, target>>

FindNothing(t) ==
  /\ centralAt(t, "find", "match") /\ attachedDevicesLock = NoThread
  /\ attachedDevicesLock' = t
  /\ scan' = [scan EXCEPT ![t] = "all"]
  /\ UNCHANGED <<notCentral, notManager, attached, openCloseLock, seen, usb,
                 threadStatus, todo, target>>

\* findActiveDevices: looks for a handle for each device.
CentralFind(t) ==
  /\ centralAt(t, "find", "match") /\ attachedDevicesLock = NoThread
  /\ attachedDevicesLock' = t
  /\ scan' = [scan EXCEPT ![t] = "all"]
  /\ todo' = [todo EXCEPT ![t] = seen]
  /\ UNCHANGED <<notCentral, notManager, attached, openCloseLock, seen, usb,
                 threadStatus, target>>

\* findActiveDevice, under activeDevicesLock: the handle that matches d.
CentralMatch(t, d) ==
  /\ d \in todo[t]
  /\ todo' = [todo EXCEPT ![t] = @ \ {d}]
  /\ \/ /\ d \in ActiveDevices \ attached
        /\ centralAt(t, "match", "lock")
        /\ target' = [target EXCEPT ![t] = d]
     \/ /\ d \notin ActiveDevices \ attached
        /\ centralAt(t, "match", "match")
        /\ UNCHANGED target
  /\ UNCHANGED <<notCentral, notManager, attached, openCloseLock, seen,
                 attachedDevicesLock, usb, threadStatus, scan>>

\* Mutant: openCloseLock is not waited for.
LockNotAwaited(t) ==
  /\ centralAt(t, "lock", "attach")
  /\ openCloseLock' = [openCloseLock EXCEPT ![target[t]] = t]
  /\ UNCHANGED <<notCentral, notManager, attached, seen, attachedDevicesLock,
                 usb, threadStatus, scan, todo, target>>

\* "Prevent close from being called during attachActiveDevice".
CentralLockHandle(t) ==
  /\ centralAt(t, "lock", "attach")
  /\ acquire(target[t], t)
  /\ UNCHANGED <<notCentral, notManager, attached, seen, attachedDevicesLock,
                 usb, threadStatus, scan, todo, target>>

\* Mutant: PHIDGET_OPENED_FLAG is not tested.
AttachClosed(t) ==
  /\ centralAt(t, "attach", "match")
  /\ attached' = attached \cup ({target[t]} \cap plugged)
  /\ release(target[t])
  /\ target' = [target EXCEPT ![t] = NoHandle]
  /\ UNCHANGED <<notCentral, notManager, seen, attachedDevicesLock, usb,
                 threadStatus, scan, todo>>

\* attachActiveDevice fails for a handle that is not opened and for a device
\* that is gone.
CentralAttach(t) ==
  /\ centralAt(t, "attach", "match")
  /\ attached' = attached \cup ({target[t]} \cap opened \cap plugged)
  /\ release(target[t])
  /\ target' = [target EXCEPT ![t] = NoHandle]
  /\ UNCHANGED <<notCentral, notManager, seen, attachedDevicesLock, usb,
                 threadStatus, scan, todo>>

\* The ends of CPhidgetManager_poll and of findActiveDevices.
PollUnlock(t) ==
  /\ centralAt(t, "match", "find") /\ scan[t] = "new" /\ todo[t] = {}
  /\ managerLock' = NoThread /\ attachedDevicesLock' = NoThread
  /\ UNCHANGED <<notCentral, state, leftEarly, attached, openCloseLock, seen,
                 usb, threadStatus, scan, todo, target>>

FindUnlock(t) ==
  /\ centralAt(t, "match", "wait") /\ scan[t] = "all" /\ todo[t] = {}
  /\ attachedDevicesLock' = NoThread
  /\ UNCHANGED <<notCentral, notManager, attached, openCloseLock, seen, usb,
                 threadStatus, scan, todo, target>>

\* CThread_wait_on_event(&checkForDevicesEvent, 250).
CentralWait(t) ==
  /\ centralAt(t, "wait", "loop")
  /\ UNCHANGED <<notCentral, notManager, attached, openCloseLock, seen,
                 attachedDevicesLock, usb, threadStatus, scan, todo, target>>

\* Empties AttachedDevices.
CentralCleanup(t) ==
  /\ centralAt(t, "cleanup", "exit") /\ attachedDevicesLock = NoThread
  /\ seen' = {}
  /\ UNCHANGED <<notCentral, notManager, attached, openCloseLock,
                 attachedDevicesLock, usb, threadStatus, scan, todo, target>>

CentralExit(t) ==
  /\ centralAt(t, "exit", "exited")
  /\ threadStatus' = FALSE
  /\ UNCHANGED <<notCentral, notManager, attached, openCloseLock, seen,
                 attachedDevicesLock, usb, scan, todo, target>>

Central(t) ==
  \/ CentralLoop(t) \/ CentralLoopManagers(t)
  \/ PollLockManagers(t) \/ PollLockDevices(t)
  \/ \E m \in Managers : InitialTest(t, m)
  \/ InitialActivate(t) \/ CentralPoll(t) \/ CentralFind(t)
  \/ \E d \in Devices : CentralMatch(t, d)
  \/ CentralLockHandle(t) \/ CentralAttach(t) \/ PollUnlock(t) \/ FindUnlock(t)
  \/ CentralWait(t) \/ CentralCleanup(t) \/ CentralExit(t)

-----------------------------------------------------------------------------
(* The bus.                                                                *)

Plug(d) ==
  /\ d \in Pluggable \ plugged
  /\ plugged' = plugged \cup {d}
  /\ UNCHANGED <<deviceVars, userVars, threadVars, managerVars, ActiveDevices,
                 opened, openCloseLock, usb>>

Pull(d) ==
  /\ d \in plugged
  /\ plugged' = plugged \ {d}
  /\ UNCHANGED <<deviceVars, userVars, threadVars, managerVars, ActiveDevices,
                 opened, openCloseLock, usb>>

Next == \/ \E u \in Users : Open(u) \/ Close(u)
        \/ \E t \in Threads : Central(t)
        \/ \E d \in Pluggable : Plug(d) \/ Pull(d)

Spec == Init /\ [][Next]_vars

\* Threads that can run do run, a call once begun goes on, and one that waits
\* for managerLock gets it: the central thread drops it for the 250 ms of its
\* wait in each turn.  Nobody has to open, to close, or to touch a cable.
CallRuns(u) == (Open(u) \/ Close(u)) /\ userPc[u] # "idle"
Fairness ==
  /\ \A u \in Users :
       WF_vars(CallRuns(u)) /\ SF_vars(OpenManager(u)) /\ SF_vars(CloseDelist(u))
  /\ \A t \in Threads : WF_vars(Central(t))
FairSpec == Spec /\ Fairness

-----------------------------------------------------------------------------
(* Properties.                                                             *)

OpenLabels  == {"register", "start", "create", "setStatus", "opened"}
CloseLabels == {"unregister", "detach", "delist", "testDevices", "testManagers",
                "join", "joining", "clear", "uninit", "closed"}
\* The holder of attachedDevicesLock.
Scanning    == {"initial", "activate", "match", "lock", "attach"}
\* In the loop, or about to go through it.
Polling     == {"loop", "loopManagers", "poll", "pollLock", "find", "wait"}
               \cup Scanning

\* The values the variables take.
TypeOK ==
  /\ ActiveDevices \subseteq Devices /\ opened \subseteq Handles
  /\ attached \subseteq Devices
  /\ ActivePhidgetManagers \in Int /\ localPhidgetManagers \subseteq Managers
  /\ state \in [Managers -> {"INACTIVE", "ACTIVATING", "ACTIVE"}]
  /\ managerLock \in Threads \cup {NoThread}
  /\ leftEarly \in BOOLEAN
  /\ plugged \subseteq Pluggable /\ seen \subseteq Pluggable
  /\ openCloseLock \in [Handles -> Users \cup Threads \cup {NoThread}]
  /\ attachedDevicesLock \in Threads \cup {NoThread}
  /\ usb \in BOOLEAN /\ threadStatus \in BOOLEAN
  /\ threadHandle \in Threads \cup {NoThread}
  /\ centralPc \in [Threads -> {"none", "cleanup", "exit", "exited"} \cup Polling]
  /\ scan \in [Threads -> {"new", "all"}]
  /\ todo \in [Threads -> SUBSET Handles]
  /\ target \in [Threads -> Handles \cup {NoHandle}]
  /\ userPc \in [Users -> {"idle"} \cup OpenLabels \cup CloseLabels]
  /\ userHandle \in [Users -> Handles \cup {NoHandle}]
  /\ joining \in [Users -> Threads \cup {NoThread}]
  /\ opens \in Nat /\ created \in 0 .. MaxThreads

\* The callers outside every call.
Quiet == \A u \in Users : userPc[u] = "idle"
running(t) == centralPc[t] \notin {"none", "exited"}

\* The count agrees with the list.  A poll that makes a manager active while it
\* is being closed lets the next open list nothing and the next close count one
\* off (see README): then this is false.
Counted == ActivePhidgetManagers = Cardinality(localPhidgetManagers)

\* A handle is attached only while it is opened: findActiveDevice computes its
\* matches under one lock and attaches them under another, so the handle may be
\* closed, or closed and opened again, in between.
ClosedNotAttached == attached \subseteq opened

\* No handle is attached twice, whatever central threads run at the same time:
\* its read and write threads and its USB handle would be overwritten.
AttachOnce ==
  \A t \in Threads : centralPc[t] = "attach" => target[t] \notin attached

\* "Prevent close from being called during attachActiveDevice" (cphidget.c:1253).
NoCloseDuringAttach ==
  \A t \in Threads, u \in Users :
    centralPc[t] = "attach" /\ userPc[u] # "idle" => userHandle[u] # target[t]

\* "loop as long as there are active devices, or a phidget manager"
\* (cthread.c:242), which StartCentralThread takes for granted of a thread that
\* seems to run: when every call has returned and a device or a manager is
\* registered, a central thread polls.
LoopsWhileOpen ==
  Quiet /\ (ActiveDevices # {} \/ localPhidgetManagers # {}) =>
    \E t \in Threads : centralPc[t] \in Polling

\* The same while the count of managers agrees with their list, and unless the
\* last thread left its loop between its two unlocked reads of the condition.
CentralRuns == Counted /\ ~leftEarly => LoopsWhileOpen

\* "if there are no more active phidgets or managers, wait for the central
\* thread to exit" (cphidget.c:526): when every call has returned, no handle is
\* open and the managers are counted right, no central thread is left and the
\* USB library is shut down.
CentralGone ==
  Quiet /\ opened = {} /\ Counted => ~usb /\ \A t \in Threads : ~running(t)

\* Every CPhidget_open and CPhidget_close returns.
CallReturns ==
  \A u \in Users : userPc[u] # "idle" ~> userPc[u] = "idle"

\* The only call that does not return is a CPhidget_close that joins the central
\* thread while that thread waits for the openCloseLock the close holds.
HangsOnlyInAttach ==
  \A u \in Users :
    userPc[u] # "idle" ~>
      \/ userPc[u] = "idle"
      \/ /\ userPc[u] = "joining" /\ centralPc[joining[u]] = "lock"
         /\ target[joining[u]] = userHandle[u]

\* An opened handle whose device stays plugged in gets attached, and stays so,
\* under the conditions of CentralRuns.
AttachEventually ==
  \A h \in Pluggable :
    <>[](Quiet /\ h \in opened /\ h \in plugged /\ Counted /\ ~leftEarly)
    => <>[](h \in attached)

-----------------------------------------------------------------------------
(* The inductive invariant behind TypeOK, ClosedNotAttached, AttachOnce and *)
(* NoCloseDuringAttach.                                                    *)

\* openCloseLock is held by the call or the attach that works on the handle.
LockOwners ==
  /\ \A u \in Users, h \in Handles :
       openCloseLock[h] = u <=> userPc[u] # "idle" /\ userHandle[u] = h
  /\ \A t \in Threads, h \in Handles :
       openCloseLock[h] = t <=> centralPc[t] = "attach" /\ target[t] = h

\* The handle of a call, whether it is opened, and when it is known detached.
CallState ==
  \A u \in Users :
    /\ userPc[u] # "idle" => userHandle[u] \in Handles
    /\ userPc[u] = "detach" => userHandle[u] \in Devices
    /\ userPc[u] = "delist" => userHandle[u] \in Managers
    /\ userPc[u] \in OpenLabels => userHandle[u] \notin opened
    /\ userPc[u] \in CloseLabels => userHandle[u] \in opened
    /\ userPc[u] \in CloseLabels \ {"unregister", "detach"}
       => userHandle[u] \notin attached

\* Only the holder of attachedDevicesLock looks for handles, so a match stays
\* unattached until it is attached.
ScanState ==
  \A t \in Threads :
    /\ t > created => centralPc[t] = "none"
    /\ centralPc[t] \in Scanning <=> attachedDevicesLock = t
    /\ centralPc[t] \in {"lock", "attach"} =>
         target[t] \in Devices /\ target[t] \notin attached

\* The inductive invariant.
IInv == TypeOK /\ LockOwners /\ CallState /\ ScanState /\ ClosedNotAttached
=============================================================================
