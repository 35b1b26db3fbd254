--------------------------- MODULE EventDispatch ---------------------------
(***************************************************************************)
(* Who calls the program's event handlers, under which locks, and what      *)
(* calls made inside a handler or beside it wait for.  The central thread   *)
(* polls the bus (CPhidgetManager_poll, findActiveDevices) and calls the     *)
(* attach and detach handlers of managers and of handles; each attached    *)
(* handle has a read thread that calls its data handlers.  A handler, or a  *)
(* thread of the program, may open, close and delete handles, open and      *)
(* close the manager and ask for the attached devices.                     *)
(*                                                                         *)
(* Each device is opened by its serial number, so a handle and its device   *)
(* share a name.  Another handle stays opened, so that the central thread   *)
(* goes on; its start and its end are CentralThread's, the write thread and *)
(* a device that fails to open OutputPacket's.  A write thread ends when it *)
(* is told to, so that the joins of it are not modelled.                   *)
(***************************************************************************)
EXTENDS FiniteSets, Naturals

CONSTANTS
  Handles, Users,
  CallsIn,     \* the calls made in each kind of handler, and by users ("top")
  MaxCalls,    \* bound: calls
  MaxPlugs,    \* bound: times a device is plugged in
  Slots,       \* names for the read threads of one handle
  Nobody, Central

HandleCalls == {"open", "close", "delete"}
Calls == HandleCalls \cup {"getAttachedDevices", "managerOpen", "managerClose"}
Contexts == {"top", "attach", "detach", "data", "managerAttach", "managerDetach"}

Readers == Handles \X Slots
Threads == {Central} \cup Readers \cup Users

\* A handle stands for its openCloseLock.
Locks == {"managerLock", "attachedDevicesLock", "activeDevicesLock",
          "managerOpenCloseLock"} \cup Handles

ASSUME CallsAssumption == CallsIn \in [Contexts -> SUBSET Calls]
ASSUME BoundsAssumption == MaxCalls \in Nat /\ MaxPlugs \in Nat
ASSUME NamesAssumption ==
  /\ Nobody \notin Threads /\ Central \notin Readers \cup Users
  /\ Readers \cap Users = {} /\ Nobody \notin Handles
  /\ Handles \cap {"managerLock", "attachedDevicesLock", "activeDevicesLock",
                  "managerOpenCloseLock"} = {}

VARIABLES
  lock,             \* per lock: its holder
  central,          \* the central thread: where it is, device, what is left to do
  reader,           \* per read thread: where it is
  readThread,       \* per handle: the last read thread created
  thread_status,    \* per handle: of readThread
  call,             \* per thread: the call it is in, its step, its handle
  ActiveDevices, AttachedDevices,
  opened, attached, usbError,     \* the handles with that status flag
  freed,            \* the handles that were deleted
  deviceHandle,     \* per handle: "none", "usable", or "gone" with the device
  manager,          \* its state and flag, if it is listed, the devices it was told of
  plugged, plugs, made

bus == <<plugged, plugs>>
lists == <<ActiveDevices, AttachedDevices>>
flags == <<opened, attached, usbError>>
threads == <<reader, readThread, thread_status>>
vars == <<lock, central, reader, readThread, thread_status, call, ActiveDevices,
          AttachedDevices, opened, attached, usbError, freed, deviceHandle, manager,
          plugged, plugs, made>>

noCall == [op |-> "none", step |-> "none", on |-> Nobody]

Init ==
  /\ lock = [l \in Locks |-> Nobody]
  /\ central = [pc |-> "idle", dev |-> Nobody, todo |-> {}, detachList |-> {},
                pass |-> FALSE]
  /\ reader = [r \in Readers |-> "none"]
  /\ readThread = [h \in Handles |-> Nobody]
  /\ thread_status = [h \in Handles |-> FALSE]
  /\ call = [t \in Threads |-> noCall]
  /\ ActiveDevices = {} /\ AttachedDevices = {}
  /\ opened = {} /\ attached = {} /\ usbError = {} /\ freed = {}
  /\ deviceHandle = [h \in Handles |-> "none"]
  /\ manager = [state |-> "INACTIVE", opened |-> FALSE, listed |-> FALSE, told |-> {}]
  /\ plugged = {} /\ plugs = [h \in Handles |-> 0] /\ made = 0

free(l) == lock[l] = Nobody
taken(l, t) == [lock EXCEPT ![l] = t]
released(l) == [lock EXCEPT ![l] = Nobody]

\* The handler a thread is in, or "top" for a user.
context(t) ==
  IF t \in Users THEN "top"
  ELSE IF t \in Readers THEN (IF reader[t] = "data" THEN "data" ELSE "none")
  ELSE CASE central.pc = "inAttach" -> "attach"
         [] central.pc = "inDetach" -> "detach"
         [] central.pc \in {"inInitial", "inManagerAttach"} -> "managerAttach"
         [] central.pc = "inManagerDetach" -> "managerDetach"
         [] OTHER -> "none"

-----------------------------------------------------------------------------
(* The calls.                                                              *)

at(t, step) == call[t].step = step
goto(t, step) == call' = [call EXCEPT ![t].step = step]
return(t) == call' = [call EXCEPT ![t] = noCall]

\* A thread of the program, or a handler, makes a call.  A handle that was
\* deleted is not used again.
Call(t) ==
  /\ call[t] = noCall /\ context(t) # "none" /\ made < MaxCalls
  /\ \E op \in CallsIn[context(t)] \ {"delete"} :
       \E h \in (IF op \in HandleCalls THEN Handles \ freed ELSE {Nobody}) :
         call' = [call EXCEPT ![t] = [op |-> op, step |-> op, on |-> h]]
  /\ made' = made + 1
  /\ UNCHANGED <<lock, central, threads, lists, flags, freed, deviceHandle, manager, bus>>

\* CPhidget_delete, of a closed handle that no other call is using.
Delete(t) ==
  /\ call[t] = noCall /\ context(t) # "none" /\ made < MaxCalls
  /\ "delete" \in CallsIn[context(t)]
  /\ \E h \in Handles \ (freed \cup opened) :
       /\ \A u \in Threads : call[u].on # h
       /\ freed' = freed \cup {h}
  /\ made' = made + 1
  /\ UNCHANGED <<lock, central, threads, call, lists, flags, deviceHandle, manager, bus>>

\* Mutant: the early return leaves openCloseLock locked.
OpenReturnLocked(t) ==
  /\ at(t, "open") /\ free(call[t].on)
  /\ IF call[t].on \in opened THEN return(t) ELSE goto(t, "register")
  /\ lock' = taken(call[t].on, t)
  /\ UNCHANGED <<central, threads, lists, flags, freed, deviceHandle, manager, bus, made>>

\* CPhidget_open,
Open(t) ==
  /\ at(t, "open") /\ free(call[t].on)
  /\ IF call[t].on \in opened
     THEN return(t) /\ UNCHANGED lock
     ELSE goto(t, "register") /\ lock' = taken(call[t].on, t)
  /\ UNCHANGED <<central, threads, lists, flags, freed, deviceHandle, manager, bus, made>>

\* RegisterLocalDevice, and the end of the call.
OpenRegister(t) ==
  /\ at(t, "register") /\ free("activeDevicesLock")
  /\ ActiveDevices' = ActiveDevices \cup {call[t].on}
  /\ opened' = opened \cup {call[t].on}
  /\ lock' = released(call[t].on)
  /\ return(t)
  /\ UNCHANGED <<central, threads, AttachedDevices, attached, usbError, freed,
                 deviceHandle, manager, bus, made>>

\* CPhidget_close,
Close(t) ==
  /\ at(t, "close") /\ free(call[t].on)
  /\ IF call[t].on \in opened
     THEN goto(t, "unregister") /\ lock' = taken(call[t].on, t)
     ELSE return(t) /\ UNCHANGED lock
  /\ UNCHANGED <<central, threads, lists, flags, freed, deviceHandle, manager, bus, made>>

\* Mutant: the handle stays in ActiveDevices until the device is closed.
CloseKeepActive(t) ==
  /\ at(t, "unregister") /\ free("activeDevicesLock")
  /\ goto(t, "ifAttached")
  /\ UNCHANGED <<lock, central, threads, lists, flags, freed, deviceHandle,
                 manager, bus, made>>

CloseUnregister(t) ==
  /\ at(t, "unregister") /\ free("activeDevicesLock")
  /\ ActiveDevices' = ActiveDevices \ {call[t].on}
  /\ goto(t, "ifAttached")
  /\ UNCHANGED <<lock, central, threads, AttachedDevices, flags, freed, deviceHandle,
                 manager, bus, made>>

CloseIfAttached(t) ==
  /\ at(t, "ifAttached")
  /\ goto(t, IF call[t].on \in attached THEN "clear" ELSE "closed")
  /\ UNCHANGED <<lock, central, threads, lists, flags, freed, deviceHandle, manager,
                 bus, made>>

\* After the write thread has ended CUSBCloseHandle clears the flag,
CloseClear(t) ==
  /\ at(t, "clear")
  /\ attached' = attached \ {call[t].on}
  /\ goto(t, "join")
  /\ UNCHANGED <<lock, central, threads, lists, opened, usbError, freed, deviceHandle,
                 manager, bus, made>>

\* Mutant: nothing waits for the read thread.
notJoined(t, h) == TRUE

\* CThread_join of the read thread, if its thread_status is set; a thread does
\* not wait for itself (EDEADLK).
joined(t, h) ==
  thread_status[h] => readThread[h] = t \/ reader[readThread[h]] = "none"

\* joins the read thread, and closes the device.
CloseJoin(t) ==
  /\ at(t, "join") /\ joined(t, call[t].on)
  /\ deviceHandle' = [deviceHandle EXCEPT ![call[t].on] = "none"]
  /\ goto(t, "closed")
  /\ UNCHANGED <<lock, central, threads, lists, flags, freed, manager, bus, made>>

CloseEnd(t) ==
  /\ at(t, "closed")
  /\ opened' = opened \ {call[t].on}
  /\ lock' = released(call[t].on)
  /\ return(t)
  /\ UNCHANGED <<central, threads, lists, attached, usbError, freed, deviceHandle, manager,
                 bus, made>>

\* CPhidgetManager_getAttachedDevices.
GetAttachedDevices(t) ==
  /\ at(t, "getAttachedDevices") /\ free("attachedDevicesLock")
  /\ return(t)
  /\ UNCHANGED <<lock, central, threads, lists, flags, freed, deviceHandle, manager, bus, made>>

\* CPhidgetManager_open,
ManagerOpen(t) ==
  /\ at(t, "managerOpen") /\ free("managerOpenCloseLock")
  /\ IF manager.opened
     THEN return(t) /\ UNCHANGED lock
     ELSE /\ goto(t, IF manager.state = "INACTIVE" THEN "enlist" ELSE "managerOpened")
          /\ lock' = taken("managerOpenCloseLock", t)
  /\ UNCHANGED <<central, threads, lists, flags, freed, deviceHandle, manager, bus, made>>

\* Mutant: the state is set as on the Mac, where no first poll follows.
ManagerEnlistActive(t) ==
  /\ at(t, "enlist") /\ free("managerLock")
  /\ manager' = [manager EXCEPT !.listed = TRUE, !.state = "ACTIVE", !.told = {}]
  /\ goto(t, "managerOpened")
  /\ UNCHANGED <<lock, central, threads, lists, flags, freed, deviceHandle, bus, made>>

ManagerEnlist(t) ==
  /\ at(t, "enlist") /\ free("managerLock")
  /\ manager' = [manager EXCEPT !.listed = TRUE, !.state = "ACTIVATING", !.told = {}]
  /\ goto(t, "managerOpened")
  /\ UNCHANGED <<lock, central, threads, lists, flags, freed, deviceHandle, bus, made>>

\* CPhidgetManager_close, whose state changes before managerLock is taken,
ManagerClose(t) ==
  /\ at(t, "managerClose") /\ free("managerOpenCloseLock")
  /\ IF manager.opened
     THEN /\ lock' = taken("managerOpenCloseLock", t)
          /\ manager' = [manager EXCEPT !.state = "INACTIVE"]
          /\ goto(t, IF manager.state = "INACTIVE" THEN "managerClosed" ELSE "delist")
     ELSE return(t) /\ UNCHANGED <<lock, manager>>
  /\ UNCHANGED <<central, threads, lists, flags, freed, deviceHandle, bus, made>>

\* Mutant: localPhidgetManagers is changed without managerLock.
ManagerDelistUnlocked(t) ==
  /\ at(t, "delist")
  /\ manager' = [manager EXCEPT !.listed = FALSE]
  /\ goto(t, "managerClosed")
  /\ UNCHANGED <<lock, central, threads, lists, flags, freed, deviceHandle, bus, made>>

ManagerDelist(t) ==
  /\ at(t, "delist") /\ free("managerLock")
  /\ manager' = [manager EXCEPT !.listed = FALSE]
  /\ goto(t, "managerClosed")
  /\ UNCHANGED <<lock, central, threads, lists, flags, freed, deviceHandle, bus, made>>

\* and the end of both.
ManagerEnd(t) ==
  /\ call[t].step \in {"managerOpened", "managerClosed"}
  /\ manager' = [manager EXCEPT !.opened = at(t, "managerOpened")]
  /\ lock' = released("managerOpenCloseLock")
  /\ return(t)
  /\ UNCHANGED <<central, threads, lists, flags, freed, deviceHandle, bus, made>>

-----------------------------------------------------------------------------
(* The central thread: CPhidgetManager_poll, then findActiveDevices.       *)

in(p) == central.pc = p
\* The manager's handlers are called with attachedDevicesLock dropped.
listening == manager.listed /\ manager.state = "ACTIVE"

PollBegin ==
  /\ \/ in("idle") /\ free("managerLock")
        /\ lock' = taken("managerLock", Central)
        /\ central' = [central EXCEPT !.pc = "poll"]
     \/ in("poll") /\ free("attachedDevicesLock")
        /\ lock' = taken("attachedDevicesLock", Central)
        /\ central' = [central EXCEPT !.pc = "initial"]
  /\ UNCHANGED <<threads, call, lists, flags, freed, deviceHandle, manager, bus, made>>

\* sendInitialEvents: the state is tested, and then set.
InitialTest ==
  /\ in("initial")
  /\ central' = [central EXCEPT !.pc =
       IF manager.listed /\ manager.state = "ACTIVATING" THEN "activate" ELSE "build"]
  /\ UNCHANGED <<lock, threads, call, lists, flags, freed, deviceHandle, manager, bus, made>>

InitialActivate ==
  /\ in("activate")
  /\ manager' = [manager EXCEPT !.state = "ACTIVE"]
  /\ central' = [central EXCEPT !.pc = "initialEvents", !.todo = AttachedDevices]
  /\ UNCHANGED <<lock, threads, call, lists, flags, freed, deviceHandle, bus, made>>

InitialEvent ==
  /\ in("initialEvents")
  /\ IF central.todo = {}
     THEN central' = [central EXCEPT !.pc = "build"] /\ UNCHANGED <<lock, manager>>
     ELSE \E d \in central.todo :
            /\ central' = [central EXCEPT !.pc = "inInitial", !.dev = d, !.todo = @ \ {d}]
            /\ manager' = [manager EXCEPT !.told = @ \cup {d}]
            /\ lock' = released("attachedDevicesLock")
  /\ UNCHANGED <<threads, call, lists, flags, freed, deviceHandle, bus, made>>

\* Mutant: the devices that are gone are not looked for.
BuildListNew ==
  /\ in("build")
  /\ central' = [central EXCEPT !.pc = "scan", !.todo = plugged, !.detachList = {}]
  /\ UNCHANGED <<lock, threads, call, lists, flags, freed, deviceHandle, manager, bus, made>>

\* CUSBBuildList: a device that was pulled and plugged in again since the last
\* poll is in the list, and known.
BuildList ==
  /\ in("build")
  /\ central' = [central EXCEPT !.pc = "scan", !.todo = plugged,
                                !.detachList = AttachedDevices \ plugged]
  /\ UNCHANGED <<lock, threads, call, lists, flags, freed, deviceHandle, manager, bus, made>>

\* CPhidgetAttachEvent for a device that is new,
AttachEvent ==
  /\ in("scan")
  /\ \E d \in central.todo :
       /\ AttachedDevices' = AttachedDevices \cup {d}
       /\ IF d \in AttachedDevices
          THEN /\ central' = [central EXCEPT !.pc = "ifError", !.dev = d]
               /\ UNCHANGED <<lock, manager>>
          ELSE IF listening
          THEN /\ central' = [central EXCEPT !.pc = "inManagerAttach", !.dev = d]
               /\ manager' = [manager EXCEPT !.told = @ \cup {d}]
               /\ lock' = released("attachedDevicesLock")
          ELSE /\ central' = [central EXCEPT !.pc = "find", !.dev = d]
               /\ UNCHANGED <<lock, manager>>
  /\ UNCHANGED <<threads, call, ActiveDevices, flags, freed, deviceHandle, bus, made>>

\* What follows findActiveDevice, in the poll and in findActiveDevices.
afterFind == IF central.pass THEN "pass" ELSE "ifError"

\* findActiveDevice collects the handles that match,
FindActiveDevice ==
  /\ in("find") /\ free("activeDevicesLock")
  /\ central' = [central EXCEPT !.pc = IF central.dev \in ActiveDevices \ attached
                                       THEN "match" ELSE afterFind]
  /\ UNCHANGED <<lock, threads, call, lists, flags, freed, deviceHandle, manager, bus, made>>

\* and attachActiveDevice opens the device of one and calls its attach handler
\* with openCloseLock held.
AttachActiveDevice ==
  /\ in("match")
  /\ central.dev \notin freed /\ free(central.dev)
  /\ IF central.dev \in opened \cap plugged
     THEN /\ attached' = attached \cup {central.dev}
          /\ deviceHandle' = [deviceHandle EXCEPT ![central.dev] = "usable"]
          /\ lock' = taken(central.dev, Central)
          /\ central' = [central EXCEPT !.pc = "inAttach"]
     ELSE /\ central' = [central EXCEPT !.pc = afterFind]
          /\ UNCHANGED <<attached, deviceHandle, lock>>
  /\ UNCHANGED <<threads, call, lists, opened, usbError, freed, manager, bus, made>>

\* The handle is deleted when central reads it.
UseFreed ==
  /\ central.pc \in {"match", "detached"} /\ central.dev \in freed
  /\ central' = [central EXCEPT !.pc = "undefined"]
  /\ UNCHANGED <<lock, threads, call, lists, flags, freed, deviceHandle, manager, bus, made>>

\* After the attach handler the read thread is started.
StartRead ==
  /\ in("inAttach") /\ call[Central] = noCall
  /\ \E r \in {central.dev} \X Slots :
       /\ reader[r] = "none"
       /\ reader' = [reader EXCEPT ![r] = "read"]
       /\ readThread' = [readThread EXCEPT ![central.dev] = r]
  /\ thread_status' = [thread_status EXCEPT ![central.dev] = TRUE]
  /\ lock' = released(central.dev)
  /\ central' = [central EXCEPT !.pc = afterFind]
  /\ UNCHANGED <<call, lists, flags, freed, deviceHandle, manager, bus, made>>

\* PHIDGET_USB_ERROR_FLAG: the device is cycled through a detach.
CheckError ==
  /\ in("ifError") /\ free("activeDevicesLock")
  /\ central' = [central EXCEPT !.pc = "scan", !.todo = @ \ {central.dev},
       !.detachList = @ \cup ({central.dev} \cap ActiveDevices \cap attached \cap usbError)]
  /\ UNCHANGED <<lock, threads, call, lists, flags, freed, deviceHandle, manager, bus, made>>

\* CPhidgetDetachEvent,
DetachEvent ==
  /\ in("scan") /\ central.todo = {}
  /\ \E d \in central.detachList :
       /\ AttachedDevices' = AttachedDevices \ {d}
       /\ central' = [central EXCEPT !.pc = IF listening THEN "inManagerDetach"
                                            ELSE "detachFind", !.dev = d]
       /\ IF listening
          THEN /\ manager' = [manager EXCEPT !.told = @ \ {d}]
               /\ lock' = released("attachedDevicesLock")
          ELSE UNCHANGED <<lock, manager>>
  /\ UNCHANGED <<threads, call, ActiveDevices, flags, freed, deviceHandle, bus, made>>

\* finds the attached handle and keeps activeDevicesLock,
DetachFind ==
  /\ in("detachFind") /\ free("activeDevicesLock")
  /\ IF central.dev \in ActiveDevices \cap attached
     THEN /\ lock' = taken("activeDevicesLock", Central)
          /\ central' = [central EXCEPT !.pc = "detachClear"]
     ELSE /\ central' = [central EXCEPT !.pc = "scan", !.detachList = @ \ {central.dev}]
          /\ UNCHANGED lock
  /\ UNCHANGED <<threads, call, lists, flags, freed, deviceHandle, manager, bus, made>>

\* clears the flag,
DetachClear ==
  /\ in("detachClear")
  /\ attached' = attached \ {central.dev}
  /\ central' = [central EXCEPT !.pc = "detachJoin"]
  /\ UNCHANGED <<lock, threads, call, lists, opened, usbError, freed, deviceHandle,
                 manager, bus, made>>

\* joins the read thread and closes the device,
DetachJoin ==
  /\ in("detachJoin") /\ joined(Central, central.dev)
  /\ deviceHandle' = [deviceHandle EXCEPT ![central.dev] = "none"]
  /\ lock' = released("activeDevicesLock")
  /\ central' = [central EXCEPT !.pc = "detached"]
  /\ UNCHANGED <<threads, call, lists, flags, freed, manager, bus, made>>

\* and calls the detach handler, with no lock of the handle.
DetachHandler ==
  /\ in("detached") /\ central.dev \notin freed
  /\ central' = [central EXCEPT !.pc = "inDetach"]
  /\ UNCHANGED <<lock, threads, call, lists, flags, freed, deviceHandle, manager, bus, made>>

\* The handle's fields are written after the handler has returned.
Detached ==
  /\ in("inDetach") /\ call[Central] = noCall
  /\ IF central.dev \in freed
     THEN central' = [central EXCEPT !.pc = "undefined"] /\ UNCHANGED usbError
     ELSE /\ usbError' = usbError \ {central.dev}
          /\ central' = [central EXCEPT !.pc = "scan", !.detachList = @ \ {central.dev}]
  /\ UNCHANGED <<lock, threads, call, lists, opened, attached, freed, deviceHandle,
                 manager, bus, made>>

\* A handler of the manager returns, and attachedDevicesLock is taken again.
ManagerHandled ==
  /\ central.pc \in {"inInitial", "inManagerAttach", "inManagerDetach"}
  /\ call[Central] = noCall /\ free("attachedDevicesLock")
  /\ lock' = taken("attachedDevicesLock", Central)
  /\ central' = [central EXCEPT !.pc = CASE @ = "inInitial" -> "initialEvents"
                                         [] @ = "inManagerAttach" -> "find"
                                         [] OTHER -> "detachFind"]
  /\ UNCHANGED <<threads, call, lists, flags, freed, deviceHandle, manager, bus, made>>

\* The poll ends; findActiveDevices then looks again at every attached device,
PollEnd ==
  /\ in("scan") /\ central.todo = {} /\ central.detachList = {}
  /\ lock' = [lock EXCEPT !["managerLock"] = Nobody, !["attachedDevicesLock"] = Nobody]
  /\ central' = [central EXCEPT !.pc = "polled"]
  /\ UNCHANGED <<threads, call, lists, flags, freed, deviceHandle, manager, bus, made>>

FindActiveDevices ==
  /\ \/ /\ in("polled") /\ free("attachedDevicesLock")
        /\ lock' = taken("attachedDevicesLock", Central)
        /\ central' = [central EXCEPT !.pc = "pass", !.pass = TRUE, !.todo = AttachedDevices]
     \/ /\ in("pass") /\ \E d \in central.todo :
             central' = [central EXCEPT !.pc = "find", !.dev = d, !.todo = @ \ {d}]
        /\ UNCHANGED lock
     \/ /\ in("pass") /\ central.todo = {}
        /\ lock' = released("attachedDevicesLock")
        /\ central' = [central EXCEPT !.pc = "idle", !.pass = FALSE]
  /\ UNCHANGED <<threads, call, lists, flags, freed, deviceHandle, manager, bus, made>>

-----------------------------------------------------------------------------
(* ReadThreadFunction and CPhidget_read.                                   *)

exit(r) ==
  /\ reader' = [reader EXCEPT ![r] = "none"]
  /\ thread_status' = [thread_status EXCEPT ![r[1]] = FALSE]

\* The flag and the device's handle are tested, and a transfer begins; it
\* ends with a packet, for the data handlers, or with none,
Read(r) ==
  /\ \/ /\ reader[r] = "read" /\ r[1] \in attached /\ deviceHandle[r[1]] # "none"
        /\ reader' = [reader EXCEPT ![r] = "transfer"]
     \/ /\ reader[r] = "transfer" /\ deviceHandle[r[1]] = "usable"
        /\ \E next \in {"read", "data"} : reader' = [reader EXCEPT ![r] = next]
     \/ /\ reader[r] = "data" /\ call[r] = noCall
        /\ reader' = [reader EXCEPT ![r] = "read"]
  /\ UNCHANGED <<lock, central, readThread, thread_status, call, lists, flags, freed,
                 deviceHandle, manager, bus, made>>

\* or the thread ends: for good, or with PHIDGET_USB_ERROR_FLAG.
ReadExit(r) ==
  /\ \/ /\ reader[r] = "read" /\ r[1] \notin attached
        /\ UNCHANGED usbError
     \/ /\ reader[r] = "transfer" /\ deviceHandle[r[1]] # "usable"
        /\ UNCHANGED usbError
     \/ /\ reader[r] = "read" /\ r[1] \in attached /\ deviceHandle[r[1]] = "none"
        /\ usbError' = usbError \cup {r[1]}
     \/ /\ reader[r] = "transfer" /\ deviceHandle[r[1]] = "usable"
        /\ usbError' = usbError \cup {r[1]}
  /\ exit(r)
  /\ UNCHANGED <<lock, central, readThread, call, lists, opened, attached, freed,
                 deviceHandle, manager, bus, made>>

-----------------------------------------------------------------------------
Plug(d) ==
  /\ d \notin plugged /\ plugs[d] < MaxPlugs
  /\ plugged' = plugged \cup {d} /\ plugs' = [plugs EXCEPT ![d] = @ + 1]
  /\ UNCHANGED <<lock, central, threads, call, lists, flags, freed, deviceHandle, manager,
                 made>>

Unplug(d) ==
  /\ d \in plugged
  /\ plugged' = plugged \ {d}
  /\ deviceHandle' = [deviceHandle EXCEPT ![d] = IF @ = "usable" THEN "gone" ELSE @]
  /\ UNCHANGED <<lock, central, threads, call, lists, flags, freed, manager, plugs, made>>

CallStep(t) ==
  \/ Open(t) \/ OpenRegister(t) \/ Close(t) \/ CloseUnregister(t) \/ CloseIfAttached(t)
  \/ CloseClear(t) \/ CloseJoin(t) \/ CloseEnd(t) \/ GetAttachedDevices(t) \/ ManagerOpen(t)
  \/ ManagerEnlist(t) \/ ManagerClose(t) \/ ManagerDelist(t) \/ ManagerEnd(t)

CentralStep ==
  \/ PollBegin \/ InitialTest \/ InitialActivate \/ InitialEvent \/ BuildList
  \/ AttachEvent \/ FindActiveDevice \/ AttachActiveDevice \/ UseFreed \/ StartRead
  \/ CheckError \/ DetachEvent \/ DetachFind \/ DetachClear \/ DetachJoin \/ DetachHandler \/ Detached
  \/ ManagerHandled \/ PollEnd \/ FindActiveDevices

ReaderStep(r) == Read(r) \/ ReadExit(r)

Next ==
  \/ CentralStep
  \/ \E r \in Readers : ReaderStep(r)
  \/ \E t \in Threads : Call(t) \/ Delete(t) \/ CallStep(t)
  \/ \E d \in Handles : Plug(d) \/ Unplug(d)

Spec == Init /\ [][Next]_vars

\* Threads that can go on do, and handlers return; a call that waits for a lock
\* has it some time, as the central thread sleeps between polls with none held.
\* Nobody has to call or plug.
FairSpec ==
  /\ Spec
  /\ WF_vars(CentralStep)
  /\ \A r \in Readers : WF_vars(ReaderStep(r))
  /\ \A t \in Threads : SF_vars(CallStep(t))

-----------------------------------------------------------------------------
\* Where the central thread and a call can be, and what a manager is.
Places == {"idle", "poll", "initial", "activate", "initialEvents", "inInitial", "build", "scan",
           "inManagerAttach", "find", "match", "inAttach", "ifError", "inManagerDetach",
           "detachFind", "detachClear", "detachJoin", "detached", "inDetach", "polled", "pass",
           "undefined"}
Steps == {"none", "register", "unregister", "ifAttached", "clear", "join", "closed", "enlist",
          "delist", "managerOpened", "managerClosed"} \cup Calls
ManagerStates == {"INACTIVE", "ACTIVATING", "ACTIVE"}

CentralStates == [pc : Places, dev : Handles \cup {Nobody}, todo : SUBSET Handles,
                  detachList : SUBSET Handles, pass : BOOLEAN]
ManagerValues ==
  [state : ManagerStates, opened : BOOLEAN, listed : BOOLEAN, told : SUBSET Handles]
CallStates == [op : Calls \cup {"none"}, step : Steps, on : Handles \cup {Nobody}]

\* Every variable keeps the values the code can give it.
TypeOK ==
  /\ lock \in [Locks -> Threads \cup {Nobody}]
  /\ central \in CentralStates
  /\ reader \in [Readers -> {"none", "read", "transfer", "data"}]
  /\ readThread \in [Handles -> Readers \cup {Nobody}]
  /\ thread_status \in [Handles -> BOOLEAN]
  /\ call \in [Threads -> CallStates]
  /\ ActiveDevices \subseteq Handles /\ AttachedDevices \subseteq Handles
  /\ opened \subseteq Handles /\ attached \subseteq Handles /\ usbError \subseteq Handles
  /\ freed \subseteq Handles /\ plugged \subseteq Handles
  /\ deviceHandle \in [Handles -> {"none", "usable", "gone"}]
  /\ manager \in ManagerValues
  /\ plugs \in [Handles -> 0 .. MaxPlugs] /\ made \in 0 .. MaxCalls

\* Once CPhidget_close has returned, no data handler of the handle runs, and
\* none of its read threads reads; and the device of a handle is not closed under
\* a transfer of a read thread: CUSBCloseHandle joins the thread first.
QuietWhenClosed ==
  \A r \in Readers :
    /\ r[1] \notin opened => reader[r] = "none"
    /\ reader[r] = "transfer" => deviceHandle[r[1]] # "none"

\* The device of a handle is closed by one thread: the detach and a close
\* exclude each other with activeDevicesLock, which neither holds to the end.
ClosedOnce ==
  \A h \in Handles :
    Cardinality({t \in Threads : at(t, "join") /\ call[t].on = h}
                \cup {t \in {Central} : in("detachJoin") /\ central.dev = h}) <= 1

\* Whenever the poll is over, an active manager has been told of the devices
\* that are attached, whenever it was opened or closed.
ManagerView == in("idle") /\ listening => manager.told = AttachedDevices

\* Once CPhidgetManager_close has returned, no handler of the manager runs:
\* the poll keeps managerLock while it calls them.
ManagerQuiet ==
  context(Central) \in {"managerAttach", "managerDetach"} =>
    manager.opened \/ \E t \in Threads : at(t, "managerOpened")

\* The calls that wait for a lock which the thread that calls the handler holds,
\* or holds while it waits for that thread.
Risky ==
  ({"attach", "data"} \X Calls)
  \cup ({"detach"} \X {"getAttachedDevices", "managerOpen", "managerClose"})
  \cup ({"managerAttach", "managerDetach"} \X {"managerOpen", "managerClose"})

\* A thread is in such a call, or the central thread has used a freed handle.
risk ==
  in("undefined") \/ \E t \in Threads : <<context(t), call[t].op>> \in Risky

\* Every call returns, if no thread is in one of those, or lost.
CallsReturn == \A t \in Threads : call[t] # noCall ~> call[t] = noCall \/ risk

UnplugDetaches ==
  \A h \in Handles :
    h \in attached \ plugged ~> h \notin attached \ plugged \/ risk
-----------------------------------------------------------------------------
(* The refinement: a handle's device is in use while deviceHandle is set, and *)
(* whoever has cleared the attached flag and joins the read thread closes it. *)

inUse == {h \in Handles : deviceHandle[h] # "none"}
closes(t, h) ==
  \/ at(t, "join") /\ call[t].on = h
  \/ t = Central /\ in("detachJoin") /\ central.dev = h
closing == {c \in Threads \X Handles : closes(c[1], c[2])}

Life == INSTANCE HandleLife

\* The life of a handle's device, whoever opens, closes, detaches or cycles the
\* handle beside the others or from a handler: no close returns while the
\* device is in use, although CPhidget_close tests the attached flag
\* (cphidget.c:513) when it holds no lock of the central thread any more.
ImplementsHandleLife == Life!LifeSpec
=============================================================================
