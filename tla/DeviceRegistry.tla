--------------------------- MODULE DeviceRegistry ---------------------------
(***************************************************************************)
(* Which handle gets which device: the lists ActiveDevices (the opened      *)
(* handles) and AttachedDevices (the devices the last poll saw), and the    *)
(* operations on them: CPhidget_open, CPhidget_openLabel, CPhidget_close,   *)
(* and, in the central thread, CPhidgetAttachEvent, CPhidgetDetachEvent,    *)
(* findActiveDevice and the recovery from USB errors.  The operations are   *)
(* atomic here; CentralThread and OutputPacket interleave them.  All        *)
(* devices have the same class and deviceIDSpec, so these two comparisons   *)
(* are left out; a device is its serial number, and the address it gets     *)
(* when it is plugged in is a new one.                                     *)
(***************************************************************************)
EXTENDS CPhidgetList, Integers

CONSTANTS
  Handles, Devices, Labels,
  LabelOf,      \* the label stored in each device
  Requests,     \* per handle: what the user may open it with
  MaxAddress,   \* bound: times a device is plugged in
  SlowReplug,   \* whether a pulled device comes back only after the next poll
  NoDevice, NoLabel

ASSUME NamesAssumption == NoDevice \notin Devices /\ NoLabel \notin Labels
ASSUME LabelAssumption == LabelOf \in [Devices -> Labels]

\* What a handle is opened with: any device, a serial number or a label.
Request == [mode : {"any", "serial", "label"},
            serial : Devices \cup {NoDevice}, label : Labels \cup {NoLabel}]

ASSUME RequestsAssumption == Requests \in [Handles -> SUBSET Request]
ASSUME BoundsAssumption == MaxAddress \in Nat /\ SlowReplug \in BOOLEAN

VARIABLES
  phid,            \* per handle: specificDevice, serialNumber and label
  opened,          \* the handles with PHIDGET_OPENED_FLAG
  device,          \* per handle: the device it is attached to
  usedAddress,     \* per handle: the bus address its libusb handle is for
  usbError,        \* the handles with PHIDGET_USB_ERROR_FLAG
  ActiveDevices, AttachedDevices,
  address,         \* per device: its bus address, 0 when it is not plugged in
  plugs,           \* per device: how often it was plugged in
  request          \* history: what each handle was last opened with

vars == <<phid, opened, device, usedAddress, usbError, ActiveDevices,
          AttachedDevices, address, plugs, request>>
bus == <<address, plugs>>

anything == [mode |-> "any", serial |-> NoDevice, label |-> NoLabel]

Init ==
  /\ phid = [h \in Handles |-> anything]
  /\ opened = {} /\ usbError = {}
  /\ device = [h \in Handles |-> NoDevice]
  /\ usedAddress = [h \in Handles |-> 0]
  /\ ActiveDevices = <<>> /\ AttachedDevices = {}
  /\ address = [d \in Devices |-> 0]
  /\ plugs = [d \in Devices |-> 0]
  /\ request = [h \in Handles |-> anything]

\* CPhidgetHandle_areEqual.
sameHandle(h) == {h}

attached(h) == device[h] # NoDevice
present == {d \in Devices : address[d] # 0}
registered(h) == inList(ActiveDevices, sameHandle(h))

\* CPhidget_areEqual: PHIDGETOPEN_ANY equals everything.
similar(p, q) ==
  \/ p.mode = "any" \/ q.mode = "any"
  \/ /\ {p.mode, q.mode} # {"serial", "label"}
     /\ "serial" \in {p.mode, q.mode} => p.serial = q.serial
     /\ "label" \in {p.mode, q.mode} => p.label = q.label

\* Mutant: only the serial numbers are compared.
equalSerials(h) == {g \in Handles : phid[g].serial = phid[h].serial}

areEqual(h) == {g \in Handles : similar(phid[h], phid[g])}

\* Mutant: the device in the list is one opened by label.
listedByLabel(d) == [mode |-> "label", serial |-> d, label |-> LabelOf[d]]

\* The handle CUSBBuildList makes for a device: specificDevice is TRUE, which
\* is PHIDGETOPEN_SERIAL.
listed(d) == [mode |-> "serial", serial |-> d, label |-> LabelOf[d]]
deviceEqual(d) == {h \in Handles : similar(listed(d), phid[h])}

-----------------------------------------------------------------------------
(* The user's calls.                                                       *)

\* CPhidget_open and CPhidget_openLabel with RegisterLocalDevice: a duplicate
\* is not registered, but opened all the same.  openLabel leaves the serial
\* number alone, and open the label.
Open(h) ==
  /\ h \notin opened
  /\ \E r \in Requests[h] :
       /\ request' = [request EXCEPT ![h] = r]
       /\ phid' = [phid EXCEPT ![h].mode = r.mode,
                     ![h].serial = IF r.mode = "label" THEN @ ELSE r.serial,
                     ![h].label = IF r.mode = "label" THEN r.label ELSE @]
       /\ ActiveDevices' = addToList(ActiveDevices, h,
                              IF r.mode = "any" THEN sameHandle(h) ELSE areEqual(h)')
  /\ opened' = opened \cup {h}
  /\ UNCHANGED <<bus, device, usedAddress, usbError, AttachedDevices>>

\* specificDevice when a handle that was opened with "any" loses its device; a
\* close resets its serial number too, a detach does not.
forget(p) == [p EXCEPT !.mode = IF @ = "anyAttached" THEN "any" ELSE @]
reset(p) == IF p.mode = "anyAttached"
            THEN [forget(p) EXCEPT !.serial = NoDevice] ELSE p

\* CPhidget_close; PHIDGET_USB_ERROR_FLAG stays as it is.  When no registered
\* handle is left it waits for the central thread, which forgets the devices.
Close(h) ==
  /\ h \in opened
  /\ ActiveDevices' = removeFromList(ActiveDevices, areEqual(h))
  /\ device' = [device EXCEPT ![h] = NoDevice]
  /\ usedAddress' = [usedAddress EXCEPT ![h] = 0]
  /\ phid' = [phid EXCEPT ![h] = reset(@)]
  /\ opened' = opened \ {h}
  /\ AttachedDevices' = IF ActiveDevices' = <<>> THEN {} ELSE AttachedDevices
  /\ UNCHANGED <<bus, usbError, request>>

-----------------------------------------------------------------------------
(* The central thread, which runs while a handle is registered (no manager  *)
(* is open here).                                                          *)

\* Mutant: the label is not compared.
specificBySerial(h, d) ==
  \/ phid[h].mode = "serial" /\ phid[h].serial = d
  \/ phid[h].mode = "label"

\* Does the handle h, opened by serial number or by label, ask for d?
specific(h, d) ==
  \/ phid[h].mode = "serial" /\ phid[h].serial = d
  \/ phid[h].mode = "label" /\ phid[h].label = LabelOf[d]

\* The handles d may go to: those that ask for it, and those that take any.
wantsIt(d) == {h \in opened : ~attached(h) /\ specific(h, d)}
wantsAny   == {h \in opened : ~attached(h) /\ phid[h].mode = "any"}

isWanted(d) == inList(ActiveDevices, wantsIt(d)) \/ inList(ActiveDevices, wantsAny)

\* Mutant: the first handle that may have d, whatever it asks for.
firstMatch(d) == findInList(ActiveDevices, wantsIt(d) \cup wantsAny)

\* The head of findActiveDevice's list of matches.
match(d) == findInList(ActiveDevices, IF inList(ActiveDevices, wantsIt(d))
                                      THEN wantsIt(d) ELSE wantsAny)

\* libusb_claim_interface succeeds for one libusb handle at a time.
claimed(d) == \E h \in Handles : device[h] = d /\ usedAddress[h] = address[d]

\* What an attempt that fails leaves in the handle.
tried(p, d) == [p EXCEPT !.serial = IF p.mode = "any" THEN NoDevice ELSE d]

\* findActiveDevice: the first match that is opened gets the device, and the
\* device's label; when the device cannot be opened, every match is tried.
findActiveDevice(d) ==
  IF isWanted(d) /\ d \in present /\ ~claimed(d)
  THEN LET h == match(d)
       IN /\ device' = [device EXCEPT ![h] = d]
          /\ usedAddress' = [usedAddress EXCEPT ![h] = address[d]]
          /\ phid' = [phid EXCEPT ![h].mode = IF @ = "any" THEN "anyAttached" ELSE @,
                                  ![h].serial = d, ![h].label = LabelOf[d]]
  ELSE /\ phid' = [h \in Handles |->
                     IF registered(h) /\ h \in wantsIt(d) \cup wantsAny
                     THEN tried(phid[h], d) ELSE phid[h]]
       /\ UNCHANGED <<device, usedAddress>>

\* CPhidgetManager_poll sees a device that areExtraEqual to none it knows:
\* CPhidgetAttachEvent.
PollAttach(d) ==
  /\ d \in present \ AttachedDevices
  /\ AttachedDevices' = AttachedDevices \cup {d}
  /\ findActiveDevice(d)
  /\ UNCHANGED <<bus, opened, usbError, ActiveDevices, request>>

\* Mutant: only newly plugged devices are offered to the opened handles.
FindNothing(d) == d \in AttachedDevices /\ UNCHANGED vars

\* findActiveDevices, which the central thread runs after each poll.
FindActiveDevice(d) ==
  /\ d \in AttachedDevices
  /\ findActiveDevice(d)
  /\ UNCHANGED <<bus, opened, usbError, ActiveDevices, AttachedDevices,
                 request>>

\* The handles, if registered, that CPhidgetDetachEvent may take d away from.
detachesFrom(d) == {h \in Handles : phid[h].serial = d /\ attached(h)}

\* CPhidgetDetachEvent: only the first such handle is detached.
detachEvent(d) ==
  /\ AttachedDevices' = AttachedDevices \ {d}
  /\ IF inList(ActiveDevices, detachesFrom(d))
     THEN LET h == findInList(ActiveDevices, detachesFrom(d))
          IN /\ device' = [device EXCEPT ![h] = NoDevice]
             /\ usedAddress' = [usedAddress EXCEPT ![h] = 0]
             /\ usbError' = usbError \ {h}
             /\ phid' = [phid EXCEPT ![h] = forget(@)]
     ELSE UNCHANGED <<device, usedAddress, usbError, phid>>
  /\ UNCHANGED <<bus, opened, ActiveDevices, request>>

\* The poll finds no device with d's serial number any more.
PollDetach(d) == d \in AttachedDevices \ present /\ detachEvent(d)

\* The poll asks the first registered handle that equals the device for
\* PHIDGET_USB_ERROR_FLAG, and cycles the device through a detach.
PollError(d) ==
  /\ d \in AttachedDevices \cap present
  /\ inList(ActiveDevices, deviceEqual(d))
  /\ LET h == findInList(ActiveDevices, deviceEqual(d))
     IN attached(h) /\ h \in usbError
  /\ detachEvent(d)

running == ActiveDevices # <<>>

Central(d) ==
  /\ running
  /\ PollAttach(d) \/ FindActiveDevice(d) \/ PollDetach(d) \/ PollError(d)

-----------------------------------------------------------------------------
(* The bus, and the read and write threads' reports of USB errors.  A       *)
(* transfer to an address that is gone is no error: the threads just exit.  *)

Plug(d) ==
  /\ d \notin present /\ plugs[d] < MaxAddress
  /\ SlowReplug => d \notin AttachedDevices
  /\ address' = [address EXCEPT ![d] = plugs[d] + 1]
  /\ plugs' = [plugs EXCEPT ![d] = @ + 1]
  /\ UNCHANGED <<phid, opened, device, usedAddress, usbError, ActiveDevices,
                 AttachedDevices, request>>

Pull(d) ==
  /\ d \in present
  /\ address' = [address EXCEPT ![d] = 0]
  /\ UNCHANGED <<phid, opened, device, usedAddress, usbError, ActiveDevices,
                 AttachedDevices, plugs, request>>

stale(h) == attached(h) /\ usedAddress[h] # address[device[h]]

ReportError(h) ==
  /\ attached(h) /\ ~stale(h)
  /\ usbError' = usbError \cup {h}
  /\ UNCHANGED <<bus, phid, opened, device, usedAddress, ActiveDevices,
                 AttachedDevices, request>>

Next == \/ \E h \in Handles : Open(h) \/ Close(h) \/ ReportError(h)
        \/ \E d \in Devices : Central(d) \/ Plug(d) \/ Pull(d)

Spec == Init /\ [][Next]_vars

\* The central thread polls every 250 ms as long as a handle is registered.
Fairness == \A d \in Devices :
  /\ WF_vars(running /\ PollAttach(d)) /\ WF_vars(running /\ PollDetach(d))
  /\ WF_vars(running /\ FindActiveDevice(d))
  /\ WF_vars(running /\ PollError(d))
FairSpec == Spec /\ Fairness

-----------------------------------------------------------------------------
(* Properties.                                                             *)

PhidType == [mode : {"any", "anyAttached", "serial", "label"},
             serial : Devices \cup {NoDevice}, label : Labels \cup {NoLabel}]

\* The values of the handles' fields.
HandlesOK ==
  /\ phid \in [Handles -> PhidType]
  /\ opened \subseteq Handles
  /\ device \in [Handles -> Devices \cup {NoDevice}]
  /\ request \in [Handles -> Request]

\* The values the variables take; ActiveDevices never lists a handle twice.
TypeOK ==
  /\ HandlesOK
  /\ usbError \subseteq Handles
  /\ usedAddress \in [Handles -> 0 .. MaxAddress]
  /\ ActiveDevices \in Seq(Handles)
  /\ \A i, j \in 1 .. Len(ActiveDevices) :
       ActiveDevices[i] = ActiveDevices[j] => i = j
  /\ AttachedDevices \subseteq Devices
  /\ address \in [Devices -> 0 .. MaxAddress]
  /\ plugs \in [Devices -> 0 .. MaxAddress]

\* RegisterLocalDevice "registers a device to receive events and be polled by
\* the central thread" (cthread.c:150): a handle is registered from its open to
\* its close, whatever other handles are opened and closed meanwhile.
RegisteredWhileOpened == \A h \in Handles : h \in opened <=> registered(h)

\* A handle opened by serial number or label is only ever attached to a device
\* with that serial number or label.
RequestHonoured ==
  \A h \in Handles : attached(h) =>
    /\ request[h].mode = "serial" => device[h] = request[h].serial
    /\ request[h].mode = "label" => LabelOf[device[h]] = request[h].label

\* Why RequestHonoured holds: while a handle is open it keeps what it was opened
\* with, whatever it is attached to meanwhile.
KeepsRequest ==
  \A h \in opened :
    /\ request[h].mode = "serial" =>
         phid[h].mode = "serial" /\ phid[h].serial = request[h].serial
    /\ request[h].mode = "label" =>
         phid[h].mode = "label" /\ phid[h].label = request[h].label
    /\ request[h].mode = "any" => phid[h].mode \in {"any", "anyAttached"}

\* Only a handle that is open is attached.
AttachedIsOpened == \A h \in Handles : attached(h) => h \in opened

\* The inductive invariant of the proofs of RequestHonoured and SpecificFirst.
RequestInv ==
  HandlesOK /\ KeepsRequest /\ AttachedIsOpened /\ RequestHonoured

\* "First search for an active device that matches this specific attached
\* device" (cphidget.c:1192): a handle opened with "any" takes no device that an
\* opened and registered handle waits for by serial number or label.
SpecificFirst ==
  [][\A h \in Handles, d \in Devices :
       device[h] # d /\ device'[h] = d /\ request[h].mode = "any" =>
         ~\E g \in opened : registered(g) /\ ~attached(g) /\ specific(g, d)]_vars

\* No plugged device stays idle while an opened handle waits for it.
WantedServed ==
  \A d \in Devices :
    <>[](d \in present /\ \E h \in opened : specific(h, d)) =>
      []<>(\E h \in opened : device[h] = d /\ ~stale(h))

\* "if PHIDGET_USB_ERROR_FLAG is set, cycle device through a detach"
\* (cphidgetmanager.c:230): a handle with the flag set, whose read and write
\* threads are gone, is detached in the end (or closed), if it was opened by
\* serial number: the poll finds it as long as no handle opened with "any" is
\* registered before it.
SerialErrorCycled ==
  \A h \in Handles :
    attached(h) /\ h \in usbError /\ request[h].mode = "serial" ~> ~attached(h)
=============================================================================
