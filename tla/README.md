# TLA+ models of the CTD sensor suite and libphidget

This directory keeps the specifications of the program in `src/`: a Node.js server that
shows the readings of a Conductivity-Temperature-Depth sensor payload (`src/CTDServer`), a
C++ bridge to its IMU (`src/ImuCppBridge`), and the Phidget library the readings come
through (`src/libphidget-2.1.8.20150410`, called *the library* below; paths of C files are
relative to it, those of the web service to its directory `phidgetwebservice-2.1.8.20150410`).
They are TLA+ modules, TLC configurations that check them on small instances, and TLAPS
proofs of what holds for every instance. `PROJECT.json` says, for each definition, which
lines of the source it stands for.

1. [The system](#1-the-system)
2. [The modules](#2-the-modules)
3. [The runs](#3-the-runs)
4. [Fairness](#4-fairness)
5. [The proofs](#5-the-proofs)
6. [What the runs found](#6-what-the-runs-found)
7. [Known limits](#7-known-limits)
8. [What is not modelled](#8-what-is-not-modelled)
9. [The plan](#9-the-plan)

## 1. The system

A user's program opens *handles*. While anything is open a single *central thread* polls the
USB bus and attaches handles to devices; an attached handle has a *read thread* and, if its
class has outputs, a *write thread*. A handle may also be opened on a *server* elsewhere: then
a central *remote* thread connects it to a *web service*, which opens the device there with
the same library and mirrors its state in a *dictionary* of keys that clients set and listen
to. Nearly all state is shared by these threads.

### Components

**Central thread** (`cthread.c`, `CPhidget_open`/`_close`, `CPhidgetManager_open`/`_close`).
State: the record `CentralThread` (handle, `thread_status`), the lists that keep it alive
(`ActiveDevices`, `localPhidgetManagers` with its count `ActivePhidgetManagers`), each manager's
state, each handle's `openCloseLock`, libusb's context.
Operations: start at an open, loop (poll, match, wait 250 ms), leave when nothing is open;
the last close joins it and shuts libusb down. Hard: the start tests and sets the record
with no lock; the loop and the join read the list and the count without theirs; poll and close
write a manager's state under different locks; the join is made with `openCloseLock` held; the matches are computed under one lock and used under another.
Correct: it runs while something is open and is gone afterwards; nothing is attached twice,
closed during its attach, or attached after its close; every call returns; an opened handle
whose device is there is attached.

**Device and handle registry** (`cphidgetlist.c`, `CPhidget_areEqual`,
`findActiveDevice(s)`, `RegisterLocalDevice`, `CPhidgetManager_poll`). State:
`ActiveDevices` (opened handles), `AttachedDevices` (devices of the last poll), and per handle
`specificDevice`, serial number, label, flags. Operations: open with any device (-1), a serial
number or a label; close; attach; detach; recovery from a USB error. Hard: -1 compares equal
to everything; a handle's serial number and label are at once what was asked for and what is
attached; unplugging and plugging in may fall between two polls. Correct: a handle is
registered from open to close and gets only a device it asked for, specific requests first;
failed devices are cycled, and a waiting handle is served.

**Output path of a handle** (`cphidgetmacros.h`, `WriteThreadFunction`, `CPhidget_write`,
`CUSBSendPacket`). State: the property, a queue of one packet, `writeAvailableEvent`,
`writtenEvent`, `writelock`, `outputLock`, `writeStopFlag`. Operations: a setter stores a
packet, waiting for room; the write thread sends it; attach resets and starts, detach and
close stop. Hard: two events and one slot shared by any number of setters and a thread that
may die at any transfer; tests of `PHIDGET_ATTACHED_FLAG` without a lock; close against a
transfer under way. Correct: order, at most once, no lost wake-up, the device ends up with
the value the getter reports, set and close return.

**Attach and detach callbacks, read thread, managers** (`cphidgetmanager.c`, `cphidget.c`,
`ReadThreadFunction`). The user's handlers run in the central thread and in the read thread,
with locks held, and may call the library. State: five kinds of locks, the lists, the read
thread of each handle, the state of the manager. Operations: the poll with its attach and
detach events, the handlers, and open, close, delete, `getAttachedDevices` and the manager's
open and close, from a handler or beside it. Hard: close from a handler, joins under locks, a
handle freed in its own detach handler, a close beside a detach. Correct: a closed handle and a closed
manager are quiet, a device is closed once, a manager knows the bus, every call returns unless
it is one of those that wait for a lock of the thread that runs the handler.

**Input path of the device classes** (`cphidgetinterfacekit.c`, ...). Per class: decoding of a
report, change triggers, events, and the packets that configure the device. The interface kit
is the class with all of it: outputs, ratiometric mode, data rates, triggers. Hard: the read
thread takes no lock, several users' calls go into one packet, the mode is switched while
packets of the old mode are under way. Correct: the device is configured as asked, a value
is shown with the mode it was measured in, and the handler is told what the trigger says.

**Output classes** (`cphidgetservo.c`, ...). Wrappers of the output path; the LED class has a
queue of its own.

**Firmware and label protocol** (`cphidget.c:1733-2045`). One request in flight per handle,
an answer put in `GPPResponse` by the read thread and polled by the caller.

**Dictionary server and web service** (`phidget21/dict/`, `eventhandlers.c`,
`phidgetinterface.c`). State: keys with values, listeners, per session a list of pending
notifications and a report thread, the lists of clients and of open Phidgets. Operations: the
commands of a client, the callbacks of a key that changes (they open, close and set Phidgets), the
handlers of a device (they set keys), the end of a session. Hard: the callbacks drop the mutex of
the dictionary in the middle of a notification; a close joins threads that wait for it;
listeners are copied and freed. Correct: a client's view converges to the dictionary, a device is
open exactly while a client has it open, sessions end, news is reported.

**Network client** (`csocketopen.c`, `csocketevents.c`, `dict/pdictclient.c`). State: the handles to
be served, one record per server shared by its handles, the threads of each connection.
Operations: open, close, connect, authorization, failure, heartbeats, cleanup. Hard: a lock
is given up to join a thread, four kinds of threads link and free the same records, handlers
run with or without locks. Correct: no freed record is used, an open handle is connected
again, a silent server is noticed, calls return.

**CTD sensor server** (`CTDSensorServer.js`). State: socket.io connections, listeners of the
Phidgets interface, timers. Operations: connection, disconnection, a sensor reading, a tick.
Hard: listeners and timers are never removed and share the object they convert. Correct: a
connected client gets each event of the Phidgets interface once.

**IMU bridge** (`CIMUInterface.cpp`): two calls into RTIMULib, which is not in the repository.

**Service discovery, USB access, logging and utilities, Java and LabVIEW bindings**:
wrappers without state of their own that the rest depends on.

### Interactions

The CTD server gets its readings through the npm module `phidgets` and the IMU bridge; the
module is not in the repository. In the library, user threads call *open/close* (registry,
start and join of the central thread) and *set* (output path, or the queue of the interface
kit). The central thread calls attach (starts a write and a read thread) and detach (stops and joins
them) and the handlers. The write and read threads report failure by
`PHIDGET_USB_ERROR_FLAG`, which the poll turns into a detach. The web service is a program on
the library: its sessions open, close and set, its handlers change the dictionary. The network
client talks to it. The modules meet at these calls: each models its own part step by step
and the others' part as far as its state shows it.

| shared state               | modelled in detail by | appears in                    |
|----------------------------|-----------------------|-------------------------------|
| `openCloseLock`            | CentralThread         | OutputPacket, EventDispatch   |
| `ActiveDevices`            | DeviceRegistry        | CentralThread, OutputPacket, EventDispatch |
| `AttachedDevices`          | DeviceRegistry        | CentralThread, EventDispatch  |
| ATTACHED flag              | EventDispatch         | all of the library's modules  |
| USB error flag             | DeviceRegistry        | OutputPacket, EventDispatch   |
| output queue and events    | OutputPacket          | InterfaceKit (its own queue, the same events) |
| read thread and its join   | EventDispatch         | InterfaceKit, DictionaryServer |
| keys and listeners         | DictionaryServer      | RemoteClient (as answers)     |

## 2. The modules

| module | models | how its state and actions correspond to the code |
|---|---|---|
| `OutputPacket` | the output path of one handle | One pc per thread. A setter is `TESTATTACHED` and `SENDPACKET` (`LockAndAssign` ... `UnlockAndReturn`), `Writer` is `WriteThreadFunction` with `CPhidget_write` and `CUSBSendPacket`, `Central` is `attachActiveDevice` and `CPhidgetDetachEvent`, `Close` is `CPhidget_close`. A critical section of `outputLock` is one step, for nothing waits inside it; each event, flag and test outside it is a step of its own. A packet is the version of all properties of the handle that `makePacket` found when it made it: each assignment counts, also those of rejected calls and of the attach. |
| `PacketChannel` | what the output path promises | A channel of at most two packets that delivers in order, at most once, and may lose only the oldest. |
| `CentralThread` | start, life and join of the central thread | One pc per calling thread and per central thread ever created. Each unlocked test of shared state (`StartTest`, `CloseTestDevices`, `CloseTestManagers`, `CentralLoop`, `CentralLoopManagers`, `InitialTest`) is a step of its own, as are creation of the thread, `thread_status = TRUE` and the writes of a manager's `state` (`CloseManager`, `InitialActivate`). A device and its handle share a name; `Managers` are the other handles. `leftEarly` is history. |
| `CPhidgetList` | `cphidgetlist.c` | The lists as sequences; a comparison function is the set of elements that compare equal, and what a loop keeps is given by its places (`elementsAt`). |
| `DeviceRegistry` | `ActiveDevices`, `AttachedDevices` and who gets which device | Every operation is one step; `phid[h]` holds `specificDevice`, serial number and label as the code overwrites them, `request[h]` remembers what the user asked for. A device plugged in again gets a new address. |
| `EventDispatch` | the poll, the handlers, the read threads, and the calls made in or beside handlers | `lock` has the holder of every mutex, `central` says where the poll is and which device it works on, `call[t]` which call a thread is in and at which step. A handler is a place of its thread (`inAttach`, `data`, ...) at which it may make calls; `CallsIn` says which ones. |
| `HandleLife` | what the library promises about the device of a handle | Open, attach, detach, release and close, with no locks or polls: whoever detaches a handle gives its device back, once, and a handle is closed only after that. `EventDispatch` implements it (`inUse`, `closing`). |
| `InterfaceKit` | one attached handle of an interface kit | `reader` is `dataInput` with its locals, step by step where it has no lock; `writer` is `getPacket` and the transfer; `user` is a setter at a step; `device` is what the device holds. `told`, `sensorMode`, `judged` and `asked` are history. |
| `DictionaryServer` | sessions, dictionary, callbacks and device handlers of the web service | A stretch of code that holds `pd_mutex` is one step; where a callback drops it the step ends (`callback`, `relock`). `job` has the locals of a change, among them the copied list of listeners (`left`). |
| `RemoteClient` | the network client on one server address | `central` is the central remote thread, `call` the open or close of each handle, `link[s]` a connection record with its socket, its reader, and its two authorization threads; `servers` and `phids` are the lists. A place at which a thread blocks says which locks it holds (`ActiveFree`, `LockLockFree`, `ServerLockFree`). |
| `CTDServer` | `CTDSensorServer.js` | `listeners` is the emitter's list, one per connection ever made; a message carries how often its value was converted. External: each connection opens the Phidget, the same object, again, and whether that replaces the stream of readings or adds one (`streams`) is left open; a reading is then an event of each stream (`Reading`, `Sensor`). |
| `MC...` | | instances for TLC: symmetry, labels and requests, what handlers, users and clients call. |
| `...Proofs` | | theorems, section 5. |

Below the definitions of each module, the operators commented "Mutant" are plausible mistakes
in the code beside the correct definition. They are in no `Next`; put in the place of the
definition that follows them, each of them breaks a property (`PROJECT.json`, "mutants"), so
that no property is there that the code could not break.

## 3. The runs

`tlc -config <cfg> <module>` from this directory. Counts are distinct states.

| run | instance | shows |
|---|---|---|
| `output_live` (436 000) | 2 setters, 2 set calls, 2 attaches, transfer errors, cable pulls, close and reopen, fair | `NoLostWakeup`, `Converged`, `WireInOrder`, `NoTransferWhileClosing`, `SetReturns`, `CloseReturns` and the refinement `ImplementsChannel`, across a re-attach |
| `central_users` (5.1 million) | 2 callers, a device and a manager, 3 opens, 3 threads | `ClosedNotAttached`, `AttachOnce`, `NoCloseDuringAttach`, in any interleaving, also when several central threads run |
| `central_user` (31 900) | 1 caller, a device and a manager, 3 opens, fair | `CentralRuns`, `CentralGone`, `AttachEventually`, while the managers are counted right; `HangsOnlyInAttach`: no call hangs but the one of the next run |
| `central_close`, violated | 1 caller, 1 handle | `CallReturns`: a close joins a central thread that waits for the lock the close holds |
| `central_manager`, violated | 1 caller, 1 manager, 3 opens | `LoopsWhileOpen`: the central thread leaves its loop while a manager is listed, because a poll and a close disagreed about an earlier one |
| `registry_mixed` (167 000) | 2 handles, any, serial and label requests that overlap | `RequestHonoured`, `SpecificFirst` |
| `registry_served` (40 500) | 2 handles, any of 2 devices by serial number or label, the requests of the two distinct, each device plugged in again once, no sooner than a poll has seen it gone (`SlowReplug`), fair | `RegisteredWhileOpened`, `WantedServed`, `SerialErrorCycled` |
| `dispatch_handlers` (99 400) | 1 handle, the manager, 1 user, 3 calls of any kind from any handler or beside it, plugged in twice, fair | `QuietWhenClosed`, `ManagerView`, `ManagerQuiet`, `CallsReturn`, `UnplugDetaches` and the refinement `ImplementsHandleLife` |
| `interfacekit_users` (4.0 million) | 2 users, 2 sensors, 2 outputs, a device that echoes and one that does not, 3 scripts of calls | `DeviceConfigured`, `ShownAsMeasured`, `ToldWithinTrigger`, `EchoTold` |
| `dictionary_two` (312 000) | 2 clients, 1 device, 3 pairs of scripts, 2 set or remove commands each, patterns that match the client's own keys, the device's or both, plugged in once, fair | `ViewCurrent`, `LinkedWhileOpen`, `RemoveFinds`, `SessionEnds`, `NewsReported` |
| `remote_two` (124 500) | 2 handles on 1 server, 2 opens, 1 fault, fair | `NoStalePointer`, `Reconnects`, `SilenceNoticed`, `CallsReturn` |
| `server_clients` (327 000) | 2 connections, 2 readings of a converted and an unconverted input, a stream per open or one for all | `OneMessagePerEvent` |

**Bounds.** Two setters fill the queue against each other and a third one would only wait for
`writelock` behind them; two set calls put one packet in the transfer and one in the queue or
in a waiting setter; the two attaches let
everything left over from the first (a stale setter, a set event, an error flag) meet the
second. Three set calls at once, `awdc_enabled` (`Awdc`) and spurious wake-ups are too much for the
liveness properties there; the proofs cover them for all the others. In `CentralThread` two callers are the least that race; three opens let a third open
meet what the first two left, as a wrong count of managers needs, and each open creates at most one thread, so `MaxThreads =
MaxOpens` blocks nothing. In the registry the errors are between two handles that compare
equal; two addresses let each device come back once. In `EventDispatch` the locks and the
manager are shared, so that one handle meets all of them; three calls are enough for an open, a
close beside or inside a handler, and one more that meets what those two left; the second plug
meets the first one's read thread, for which there are two names (`Slots`). In `InterfaceKit`
two sensors compete for the space in a packet and two outputs for the queue; each script puts
calls together that share state; the values 0 and 5 are within the trigger or not, and `MaxCount`
lets the accumulators pass the largest number of packets per event. In `DictionaryServer` two clients are
those that share a device and follow each other; two set commands open and close it, or set
and remove; the order of three clients is that of the pairs, since one callback runs at a time. In
`RemoteClient` two handles are the least that share a record, leave it one before the other, and
keep the central thread running for each other; one fault of any kind can fall at any place,
including the time a close or a heartbeat gives up its lock. In the server the second listener
converts a value once more than the first, and the second open has a stream of its own or not.
The counters (`MaxSets`, `MaxSessions`, `MaxOpens`, `MaxThreads`, `MaxAddress`, `MaxReadings`,
`MaxTicks`, `MaxCalls`, `MaxPlugs`, `MaxFaults`) appear in guards: of the calls, the cable, the
readings, the timers and the faults, and, for `MaxSessions`, of the attach; `MaxCount` caps two
sums that a lost update lets grow. The runs do not check for
deadlock: a system whose users call nothing more, with its counters used up, has stopped; that
threads do not stop in the middle of a call is what the liveness properties say.

**Symmetry** (of users) is used in `central_users`, which checks invariants only.

## 4. Fairness

*Output path.* Weak fairness of each thread inside a call and of the write thread: the
scheduler runs what can run, and each wait has a timeout (1500 ms in the setter, 200 ms in the
write thread), so a wait is never disabled. Weak fairness of the central thread: it polls
every 250 ms. Spurious wake-ups are off in `output_live`: a wait of 200 ms that was woken
spuriously for ever would never look at `writeStopFlag`, which no scheduler does.
*Central thread.* The same for each call once it has begun and each central thread. Strong fairness for
a call that waits for `managerLock`: the central thread takes it at each poll and
has it free for the 250 ms between two of them. No other lock needs more, for the callers are finite in number and calls.
*Registry.* Weak fairness of each outcome of a poll for each device while a handle is
registered: the central thread goes through all devices at each poll.
*EventDispatch.* Weak fairness of the central thread and of each read thread, whose handlers return.
Strong fairness of the steps of a call: it needs locks that the poll takes again and again, and
the poll sleeps 250 ms with none held, so that whoever waits gets one in the end.
*DictionaryServer.* Weak fairness of the session threads where they do not wait for their
client, of the report threads (which sleep a bounded time) and of the device's threads. Nobody
takes a mutex again and again without letting it go, for the commands are bounded.
*RemoteClient.* Strong fairness of each call, of the central remote thread and of each
record's threads: they compete for three mutexes which each of them frees after a bounded time.
Weak fairness of the server's answers, as long as it is there, and strong fairness
of a poll that comes later than the heartbeat's timeout: time passes.
Nothing is assumed of the users, the clients, the cable or the faults: nobody has to call,
close, plug, pull or fail.

## 5. The proofs

Checked with `tlapm`, for all values of the constants that satisfy the named assumptions.
These only say that model values such as `NoThread`, `Nobody`, `None` are not among the things
they stand apart from, that kinds of names do not overlap, that bounds are numbers, that
what handlers and clients call are sets of calls, and that the fastest data rate is at most the interval of
the interrupts (`RateAssumption`, from the table at `cphidgetinterfacekit.c:86-127`).

Some theorems have a hypothesis of their own, which the run satisfies. Without
it TLC finds the property violated, on an instance that the run excludes; section 7 says by what.

| hypothesis | of | says |
|---|---|---|
| `OneCaller` | `RunsWhileRegistered`, `GoneAfterLast` | one thread opens and closes handles |
| `Counted`, `~leftEarly`, in the properties | `RunsWhileRegistered`, `GoneAfterLast` (`Counted` only) | the managers' count agrees with their list; the last thread did not leave its loop between its two reads of the condition |
| `Distinct` | `RegisteredCorrect` | no two handles are opened with requests that compare equal |
| no `"close"` in the calls of a data handler | `QuietIfNotClosedByReader` | no data handler closes a handle |
| `Patient`, `OneSwitcher` | `ConfiguredCorrect`, `ShownCorrect` | one user sets the ratiometric mode (`ShownCorrect` only), and does not set another before the last one is shown |
| `OwnPatterns` | `LinksCorrect` | a remove pattern matches no other client's key; keys of devices it may match |
| `WholePatterns` | `LinkedCorrect` | moreover it matches all keys of the client's own, or none |

**OutputPacketProofs** (`TypeCorrect`, `Invariance`, `OrderCorrect`,
`CloseCorrect`, `Refinement`, `WakeupCorrect`, `Convergence`). `WireInOrder` is not inductive: that a packet is newer than all
before it depends on the setter's number being fresh when it stores it (`Numbering`), that in
turn on only one setter being between its assignment and its store (`LockDiscipline`). That
the refinement's channel takes in a packet at its end, and that attach's clearing of the queue
is a loss of the oldest, needs that no transfer is under way then, so that the write thread is
gone before the next attach (`WriterLife`, `BufferEmpty`); `CloseCorrect` is part of that.
`IInv` is the conjunction. `Refinement` shows that each step is a step of
`PacketChannel` or a stutter: `StorePacket` accepts, `Transfer` delivers or loses, `AttachInit`
may lose, and all the rest stutters. `Convergence` follows a packet from the property to the
device: the property is the newest packet of the session (`Newest`), it is stored before its
setter returns (`Stored`), and from then on it is in the queue, in the buffer or the last on the
wire as long as the write thread lives (`InFlight`, `Delivering`, `Alive`); `staleSender`, which the
properties except, is where that chain breaks.

**CentralThreadProofs** (`TypeCorrect`, `Invariance`, `AttachedIsOpened`, `AttachedOnce`,
`AttachExcludesClose`, `RunsWhileRegistered`, `GoneAfterLast`). `ClosedNotAttached` follows from who owns `openCloseLock`
(`LockOwners`), what the owner has already done to its handle (`CallState`), and from
`attachedDevicesLock` having one owner, so that a handle found unattached stays so until it is
attached (`ScanState`). This holds for any number of callers and of central threads, also of
those that the races of section 7 start.
`CentralRuns` and `CentralGone` are proved for one caller, from `RInv`: the count of
managers is never too high, and once off it stays off (`ListInv`, `CountKeeps`); while it is right, the lists have the opened handles
but for the one of the call under way (`Registered`); the only thread that runs is the one in
`CentralThread`, and it leaves its loop for an empty list and a count of 0, or early (`OneThread`), so that an open finds
it polling or gone (`Started`) and the close of the last handle joins the right one (`Ended`). Both
properties assume that the count is right, for a poll can make it wrong (section 7, `central_manager`).

**DeviceRegistryProofs** (`TypeCorrect`, `RequestInvariance`, `Honoured`, `SpecificBeforeAny`,
`RegisteredCorrect`). A handle's
serial number is overwritten by each attach, so `RequestHonoured` rests on `KeepsRequest`:
what was asked for survives attaches, failed attaches and detaches until the next open. That
`CList_findInList` returns an element that compares equal is `FoundInList`, by the
well-foundedness of the natural numbers. `SpecificBeforeAny` is an action property: only
`findActiveDevice` attaches, and it takes a handle opened with -1 only if no specific one is in
the list. `RegisteredCorrect` needs what `CList_removeFromList` leaves (`RemovedFromList`). The loop
is a recursion over the list; `elementsAt` says the same without recursion, by the rank of each place among those
that are kept, and that ranks number these places in order (`ElementsInOrder`) follows from the
cardinalities of finite sets. The lists then have no duplicates (`ListsOK`), and as long as
requests are distinct the opened handles compare unequal whatever they are attached to
(`OpenedDiffer`, by `KeepsRequest`), so that a close removes its own handle and no other (`Enlisted`).

**EventDispatchProofs** (`TypeCorrect`, `HandlersStop`, `DeviceClosedOnce`, `ManagerInformed`,
`QuietIfNotClosedByReader`, `LifeRefinement`). `IInv` adds to the types who holds which lock (`Owners`), that the
manager is on the list only between its open and its close (`Listed`), and what a close or a
detach has done to its handle so far (`Closing`): that a handle is attached only while it is
open, and registered as long as no close has reached it. `HandlersStop` is then `Listed` with the
poll's `managerLock`, `DeviceClosedOnce` is `Closing`: the second of the two no longer finds the attached
flag. `ManagerInformed` adds what the manager has been told at each place of the poll (`Told`): all of
`AttachedDevices` except, during the initial events, those still to do. `QuietIfNotClosedByReader` needs one more invariant about the read threads (`Reading`:
only the last one created runs, and a close that has joined finds it ended) and the assumption that
no data handler closes a handle: a thread does not wait for itself, see section 7.
`LifeRefinement` shows that each step of the poll, the calls, the handlers and the read threads is a step of
`HandleLife` or a stutter. It needs `Used`: a device is in use while its handle is attached, and from then
on until the one thread that detached the handle has closed it. That thread is the only one, and no
attach or close comes between, because `CPhidget_close`, which tests the attached flag without a lock of the
poll, sees the detach either not begun or done: the detach holds `activeDevicesLock` from
finding the handle to the end of the join, and the close must unregister the handle before it
tests the flag.

**DictionaryServerProofs** (`TypeCorrect`, `ViewCorrect`, `RemoveCorrect`, `LinksCorrect`,
`LinkedCorrect`). `ViewCurrent` needs only that a session
that does not listen has no news of a state key (`NoNews`), so that a new listener starts from
what the dictionary has, and that the keys a session changes are not state keys (`JobKeys`), so that
stale listeners and late notifications are about other keys.
The other three follow one session at a time through its walk over what a remove has collected and
through the callbacks that drop the mutex. `RemoveCorrect` needs no condition on the patterns: what is collected
is there as long as the walk has made no callback, for it holds the mutex (`Collected`, `Away`). For the
other two (`SessionInv`): what is collected of the client's own keys stays until it is
removed (`WalkOf`), because only its session touches them; each key of a client expires with it or is among those
still to remove (`KeysOf`); a callback is called with the value that its key has (`CallOf`); and a
client on the lists of the service has its key open, or its unlinking callback still to come (`LinksOf`).
If its patterns match all of its keys or none, the converse holds, too: an open key is linked, or its
linking callback or its removal is still to come (`OpenOf`).

**RemoteClientProofs** (`TypeCorrect`, `PointersValid`). `NoStalePointer` rests on how far the
reader of a record can be while the two authorization threads run (`Threads`: the order in which
`cleanup_after_socket` waits for them is what matters), on the central thread serving only
handles that no close has reached (`Registered`), and on a handle that has left its server
pointing to none (`Left`).

**InterfaceKitProofs** (`EchoCorrect`, `TriggerCorrect`, `ConfiguredCorrect`, `ShownCorrect`). The read thread is the only one to
assign `sensorLastValue` and to call the handler of a device that echoes; the invariant says how far
it is. While a packet is handled the handler knows the outputs as they were at its start (`Echoes`).
`sensorLastValue` is what the handler was told, a sensor left to do is not judged, and a setter
that changes a trigger or a mode takes the judgement back (`Judging`). Nothing is assumed of the
values, so no type is needed but the domains of what is updated in place (`Shapes`).
`ConfiguredCorrect` follows each call to the device (`CInv`): an accepted output is queued or in
`outputStates` (`Accepted`), and outputs, rates and mode are in the packet under way or in the
device (`Delivered`, `RatesDelivered`, `ModeDelivered`), whichever packets the write thread makes of
them. `ShownCorrect` (`MInv`) has three phases of the mode: unknown (`Fresh`), shown and that of
the stored values (`Steady`), and set but not yet shown (`Switching`), where the one packet that still
holds what was measured before is the one that `ratiometricSwitching` skips. That
a device measures at least once per packet in the meantime is arithmetic on the rates (`Sampled`).

**CTDServerProofs** (`TypeCorrect`, `OncePerEvent`). `Inv` adds that a connected socket has a
listener, and that no message is of an event that is still to come.

**Model-checked only.** The liveness properties of the runs: `AttachEventually`, `HangsOnlyInAttach`,
`WantedServed`, `SerialErrorCycled`, `SetReturns`, `CloseReturns`, `SessionEnds`, `NewsReported`,
`CallsReturn`, `UnplugDetaches`, `Reconnects`, `SilenceNoticed`. They rest on fairness (section 4), and so on
`ENABLED`, which the provers do not reason about. All invariants, action properties and refinements that the passing runs check
are proved.

## 6. What the runs found

`central_close`: `CPhidget_close` joins the central thread with `openCloseLock` held while
`findActiveDevice` waits for it (`cphidget.c:529` and `:1254`). One caller and one device are
enough; the comment at `cphidget.c:526` promises to wait for the central thread to exit.

`central_manager`: "loop as long as there are active devices, or a phidget manager"
(`cthread.c:242`) does not hold even for one caller. `sendInitialEvents` tests a manager's state and
then sets it to ACTIVE (`cphidgetmanager.c:176-178`); a close that sets INACTIVE in between (`:309`) leaves a closed manager
ACTIVE. The next open lists, counts and starts nothing (`:392`), its close takes `ActivePhidgetManagers` to -1 (`:322`) and,
as that is not 0, joins nobody (`:329`). The third open lists the manager and brings the count to 0: the
thread leaves its loop (`cthread.c:243`).

The other disagreements are the limits below: each is stated as an assumption or an exception
of a run that passes, and each can be seen by lifting that.

## 7. Known limits

Assumptions of the passing runs without which their properties do not hold, and defects of the
code that the models name as exceptions or leave out.

*Central thread.*
* One caller (`central_user`). With `Users = {u1, u2}`, `CentralRuns` fails: an open that falls
  between the central thread's last look at the lists (`cthread.c:243`) and its
  `thread_status = FALSE` (`:264`) only signals a thread that is leaving. `CentralGone` fails:
  two opens both start a thread (`cthread.c:98-105`), and the last close joins one of them.
  Two closes that both find the lists empty join the same thread twice (`cthread.c:143`).
* The count of managers. After the race of `central_manager` the list and the count disagree: a manager is
  opened and never told of anything, a count of -1 keeps the thread in its loop and the last close from joining it
  (`cphidgetmanager.c:329`), and a count of 0 with a listed manager ends it. `CentralRuns`, `CentralGone` and `AttachEventually`
  assume `Counted`.
* The condition of the loop is read in two steps (`cthread.c:243`). With one caller, a device and a manager: the thread
  reads an empty `ActiveDevices`, the caller opens the device, which finds the thread running, and closes the manager, the
  thread reads a count of 0 and leaves. `CentralRuns` and `AttachEventually` except this (`leftEarly`).
* `CPhidget_open` is modelled where nothing fails in it but the duplicate; locks start
  initialised (`cthread.c:161` initialises them at the first open without protection).

*Registry.*
* `CPhidget_close` removes its handle with `CPhidget_areEqual` (`cphidget.c:511`) instead of
  `CPhidgetHandle_areEqual`; with -1, or for two handles with the same request, it unregisters
  another handle, too. `registry_served` keeps the requests of the handles distinct.
* A USB error of a handle opened by label is never cycled: the poll compares it by serial number
  (`cphidgetmanager.c:234`), and with a handle opened with -1 registered before it, that one is
  asked for the flag. `SerialErrorCycled` is about handles opened by serial number, alone.
* A device that is pulled and plugged in between two polls is not noticed:
  `CPhidgetManager_poll` compares serial numbers only (`cphidgetmanager.c:218`), and the handle stays
  attached to an address that is gone until a transfer fails.
* `CUSBOpenHandle` frees the user's handle when the product string cannot be read
  (`linux/cusblinux-1.0.c:680`) while it stays in the lists.

*Output path.*
* A close may wait for as long as another thread sets values: the write thread looks at `writeStopFlag` only when
  its wait of 200 ms times out (`cthread.c:434-440`), and the handle stays attached until it has been joined
  (`cphidget.c:513-516`), so that a set at least every 200 ms keeps it going. `CloseReturns` assumes that the users stop setting.
* A rejected set call leaves its value in the property (`cphidgetmacros.h:202-205`), which the getter reports, and the next
  packet of any channel carries it to the device (`cphidgetservo.c:279-310`). A packet of the model has all properties, and no
  property speaks of rejected values.
* `CPhidget_close` may discard a packet whose set call had returned: the write thread looks at
  `writeStopFlag` before the queue (`cphidget.c:515`, `cthread.c:436`), where the comment
  promises to wait for outstanding writes.
* At a detach the write thread may be woken with an empty queue and send what `getPacket`
  makes of that (`cphidgetmanager.c:134`).

*Callbacks and managers.* `CallsReturn` and `UnplugDetaches` except the calls in `Risky`, which
wait for a lock of the thread that runs the handler (close or open of any handle from an attach
or data handler, the manager's open and close from its own handlers), and the state
"undefined". Behind them:
* A handle deleted in its detach handler is used afterwards (`cphidgetmanager.c:140-155`;
  `cphidget.h:317` allows the deletion).
* A data handler that closes its handle leaves its own read thread running, which a later attach
  finds beside the new one, and which then may call handlers of a closed handle; the comment
  at `cphidget.c:1392` guarantees that no data event comes before the attach event has
  returned. `dispatch_handlers` lets data handlers close nothing.
* A data handler that opens a handle while its own device is detached waits for
  `activeDevicesLock`, whose holder joins the thread of the handler.
* A poll that sets ACTIVE after a close has set INACTIVE (`cphidgetmanager.c:178`, `:309`): see the central
  thread. `ManagerView` speaks of listed managers.
* `findActiveDevice` keeps its matches across handlers that may delete a handle in the list.

*Interface kit.*
* For a device that does not echo, `OutputChange` may never be called, although "This is called
  when a digital output changes" (`cphidgetinterfacekit.h:76`): `sendpacket` wakes the write
  thread (`cphidgetinterfacekit.c:1059`) before it compares `outputEchoStates` with the new value
  (`:1064`), and `getPacket` assigns them (`:916-918`). `EchoTold` is about devices that echo.
* `Patient`, and one user who sets the mode: another ratiometric mode is set only once the last one is shown. A set that falls
  into `ratiometricSwitching--` of the read thread is lost, and an unknown mode that the read
  thread is adopting overwrites one that a user sets (`:726-729`). The mode is shown before the values of its packet
  are stored, where the comment says after (`:723`).
* Two users that pass the test of `maxDataPerPacket` together exceed it (`:1313-1324`).
  `accumulatorCount` and the sum race with `setDataRate` (`:823-837` and `:1335-1336`): an average may mix rates.
* In data rate mode the stored average, not the sample, is compared with the trigger (`:811`).
* Not modelled there: `lastChangedOutput` of the 4/8/8 and 8/8/8 (`:926-927`) announces one of
  several queued outputs; the default case of `getPacket` returns with `outputLock` held (`:1000-1001`); the packet
  counter of two bits (`:642`) does not see four lost packets. An output that is unknown is sent as off (`:913-915`).

*Dictionary server.*
* `flush` of a session whose reports were switched off waits for ever (`pdictserver.c:353-357`),
  and a period set again after that starts no thread (`:325-332`; the comment at `:306` says why the
  thread's name is kept). What is pending when "report 0" arrives is not reported: the thread leaves at the end of its sleep
  (`:279`), although the answer is "periodic reports will stop after next report" (`:337-338`). `NewsReported`
  speaks of sessions whose period is not 0.
* The listeners of a key are copied before the callback that drops the mutex (`pdict.c:132`): a
  freed listener may be notified, and of two values set by two clients the older one may be
  notified last. `ViewCurrent` is about the keys that the device reports.
* `assert(pdict_ent_remove(...))` in the remove command (`pdictserver.c:424`) may fail once the walk has made a
  callback, which drops the mutex. One client is enough: with a pattern that covers its own open key and the keys
  of the device, the removal of the first closes the device (`eventhandlers.c:1938-1955`), which removes the others
  (`phidgetinterface.c:274`). The run reaches this (`aborted`); `RemoveFinds` says that nothing else makes the assert fail,
  and `SessionEnds` and `NewsReported` hold as long as the server has not aborted.
* The removal of one open key closes all Phidgets of the client (`eventhandlers.c:1947`), so that its
  other open keys are left without one. `LinkedWhileOpen` holds for patterns that match all keys of the client or none;
  the run has one device.
* A state key that a handler adds between the removal of the keys and the close of the Phidget
  stays (`phidgetinterface.c:274-282`).
* A client that does not read blocks its report thread, not the dictionary; one that is sent
  results while it does not read blocks whoever holds `pd_mutex` for it.

*Network client.* Properties are about handles with an error handler, for:
* A handle without one whose listener fails in the authorization stays in the list of the record
  with no reference to it, although "we have to remove this phid from the server list"
  (`csocketopen.c:833`): every later attempt fails with `EPHIDGET_DUPLICATE`, and each failure ends
  the walk of `FindActiveRemoteDevices`, so that the handles behind it are never connected.
  Closing it dereferences a null `networkInfo`.
* More generally the walk ends at the first connect that fails: an unreachable server that was
  opened first keeps those behind it from being connected. All handles of the model are on one
  address, and the order of the walk is any.
* `PHIDGET_SERVER_CONNECTED_FLAG`: a close clears it without `serverLock`, the authorization may set it
  again before the handle leaves the record, and the closed handle keeps it, against
  `cphidgetconstantsinternal.h:65-68`; the next close then dereferences a null server
  (`cphidget.c:455-461`). The same test races the cleanup.
* Connect and error events of the authorization run after the locks are dropped and may come after
  a close or after the disconnect event; connect events of `connectToServer` and those of
  the cleanup run with locks held, so that open and close from them wait for ever. The error thread clears
  a flag of a handle that its comment says may have been deleted (`:1032-1036`).
* A close that joins the central remote thread waits as long as another handle keeps it running
  (`:1601`; the exception of `CallsReturn`). An open between the thread's last test and its end leaves
  nobody polling (`:1650-1656`; `Reconnects` holds while it polls). A close from the error handler
  may meet a join that began before `inErrorEvent` was set (`:1583`).
* `JoinCentralRemoteThread` writes `m_ThreadHandle = 0` after the join without `CentralRemoteThreadLock` (`:1603`), which
  the next open takes to test it (`:1634`): a thread that an open has just started is forgotten (`ForgetCentral`), and its
  last close does not join it; two closes may join the same thread. A further open would start a second
  thread beside the forgotten one; the model has one thread, and cuts these behaviours off (`StartCentral`), which need a
  third open while the run has two.
* The comment that only the cleanup can claim `serverLock` during the join (`:1765-1766`) is
  outdated since the authorization threads no longer take `serverLockLock`; `NoStalePointer` shows that this
  is harmless.
* Not modelled: a command's timeout (10 s) that races its late answer, whose result lies
  on the stack of the caller (`dict/pdictclient.c`); a socket number that is closed and given to another
  connection.

*CTD server.*
* Every connection calls `pik.open` (`CTDSensorServer.js:84`). If the module makes a stream of readings of
  each call, a client gets a reading as often as there are streams; the module is not in the repository, so
  `OneMessagePerEvent` counts its events.
* `CTDSensorServer.js` is read with the parenthesis that its line 104 lacks; as it stands it
  does not parse. Line 99 multiplies by 9/5 + 32 where a conversion to Fahrenheit adds 32, and line 96 is
  applied by every listener to the same object, so that a second client is shown a value
  converted twice; the model counts conversions and does not compute them.

## 8. What is not modelled

* The IMU bridge, whose behaviour is RTIMULib's (`GetPoseInfo` returns `getIMUData` without a
  read, `CIMUInterface.cpp:83`), service discovery, USB access (its results appear as outcomes:
  success, error, gone, claimed), logging, utilities and bindings: no state that the rest
  depends on.
* The device classes but the interface kit: some 20 classes of the same shape, with units, packet formats
  and calibrations of their own. Their macros are in `OutputPacket`. The LED class's queue is
  that of the interface kit's outputs with 64 channels.
* The firmware and label protocol: a request that times out and is repeated may be given the
  answer to the first (`cphidget.c:1740` stores whatever comes, and an answer names only the
  kind of request), and `CPhidgetGPP_writeFlash` takes no `writelock`, so that it may fall
  between the chunks of a table.
* Of the web service: authentication, the stream server, labels and open-any, the keys of the manager
  and of each class. Of the network client: managers and dictionaries, open by server name, what each
  key says, commands in flight.
* Time is abstracted to "a wait may end"; memory to whether a handle or record was freed.

## 9. The plan

Done, in the order of how much depends on them: OutputPacket, PacketChannel, CentralThread,
CPhidgetList, DeviceRegistry, CTDServer; EventDispatch, InterfaceKit, DictionaryServer,
RemoteClient, HandleLife, and the proofs of each. To come:

1. **GeneralPackets**: request and response, the chunks of a table, retries of a label.
2. **DictionaryServer** with **RemoteClient**: a client's view of a handle through a connection that
   breaks; what stays set at the server when it does.
3. Attach and detach of remote handles by init keys (`csocketevents.c`), and managers by network.
4. Proofs: that `CentralThread` implements `HandleLife`, too, with several central threads at once;
   lemmas behind the liveness properties (what a thread that waits is waiting for).
