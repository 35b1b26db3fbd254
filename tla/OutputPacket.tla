---------------------------- MODULE OutputPacket ----------------------------
(***************************************************************************)
(* The output path of one opened Phidget handle: the setters called by     *)
(* the user's threads, the one-packet queue they share                     *)
(* (cphidgetmacros.h, CSENDPACKET_BUF / CGETPACKET_BUF / SENDPACKET), the   *)
(* write thread that empties it (cthread.c, WriteThreadFunction), and the  *)
(* three operations that start and stop that thread: attachActiveDevice,    *)
(* CPhidgetDetachEvent (both run by the central thread) and CPhidget_close  *)
(* (run by a user's thread).                                               *)
(*                                                                         *)
(* makePacket encodes the properties as they stand, not only the one the    *)
(* call has assigned: packet n is the version of the properties that the    *)
(* first n assignments left, those of rejected calls and of initAfterOpen,   *)
(* which sets them to what the device reports, included.                    *)
(* (A device that takes one motor a packet has such a queue of versions a   *)
(* motor; a handle of one motor is modelled.)  Each critical section of     *)
(* outputLock is one step: it waits for nothing inside, and the packet is   *)
(* touched nowhere else but in initAfterOpen.                              *)
(***************************************************************************)
EXTENDS Integers, Sequences

CONSTANTS
  Setters,          \* the user's threads that call property setters
  MaxSets,          \* bound: set calls in a behaviour
  MaxSessions,      \* bound: times the device is attached
  Awdc,             \* phid->awdc_enabled
  SpuriousWakeups,  \* whether pthread_cond_timedwait may return 0 unsignalled
  NoThread, NoPacket

ASSUME SettersAssumption == NoThread \notin Setters
ASSUME HolderAssumption  == NoThread \notin {"close", "central"}
ASSUME BoundsAssumption  == MaxSets \in Nat /\ MaxSessions \in Nat
ASSUME SwitchAssumption  == Awdc \in BOOLEAN /\ SpuriousWakeups \in BOOLEAN
ASSUME PacketAssumption  == NoPacket \notin Nat

Packets == Nat

VARIABLES
  status,         \* PHIDGET_ATTACHING_FLAG / PHIDGET_ATTACHED_FLAG
  opened,         \* PHIDGET_OPENED_FLAG
  registered,     \* the handle is in ActiveDevices
  usbError,       \* PHIDGET_USB_ERROR_FLAG
  deviceHandle,   \* phid->deviceHandle # NULL
  unplugged,      \* the device itself is gone from the bus
  outputPacket,   \* the packet queue; NoPacket iff outputPacketLen = 0
  writeAvailable, \* writeAvailableEvent.ready_to_go
  written,        \* writtenEvent.ready_to_go
  writeStopFlag,  \* phid->writeStopFlag
  writelock,      \* the setter that holds phid->writelock
  openCloseLock,  \* "close", "central" or NoThread
  property,       \* the version of the properties: how often one was assigned
  setterPc, newVal, setterRet,       \* per setter
  writerPc, writerBuf, writerRet,    \* the write thread
  closePc,                           \* the thread in CPhidget_close
  centralPc,                         \* the central thread
  sets, session,                     \* bounded counters
  wire,           \* history: the packets the device has received, in order
  blankSent,      \* history: a packet was sent from an empty queue
  lastRet,        \* history: what the last completed set call returned
  checkedIn,      \* history: the session in which a setter saw ATTACHED
  staleSender     \* history: a setter went on after that session ended

callVars    == <<writelock, setterPc, newVal, setterRet, sets, lastRet,
                 checkedIn, staleSender>>
userVars    == <<callVars, property>>
writerVars  == <<writerPc, writerBuf, writerRet, wire, blankSent>>
eventVars   == <<writeAvailable, written>>
deviceVars  == <<status, usbError, deviceHandle, unplugged>>
handleVars  == <<opened, registered, openCloseLock, closePc>>
centralVars == <<centralPc, session>>
vars == <<userVars, writerVars, eventVars, deviceVars, handleVars, centralVars,
          outputPacket, writeStopFlag>>

\* What the steps of each thread leave alone.
notSetter  == <<writerVars, deviceVars, handleVars, centralVars, writeStopFlag>>
notWriter  == <<userVars, handleVars, centralVars, status, deviceHandle,
                unplugged>>
notCentral == <<userVars, opened, registered, closePc,
                unplugged>>
notClose   == <<userVars, writerVars, eventVars, centralVars, usbError,
                unplugged, outputPacket>>

Init ==
  /\ status = "detached" /\ opened = TRUE /\ registered = TRUE
  /\ usbError = FALSE /\ deviceHandle = FALSE /\ unplugged = FALSE
  /\ outputPacket = NoPacket
  /\ writeAvailable = FALSE /\ written = FALSE /\ writeStopFlag = FALSE
  /\ writelock = NoThread /\ openCloseLock = NoThread
  /\ property = 0
  /\ setterPc = [s \in Setters |-> "idle"]
  /\ newVal = [s \in Setters |-> 0]
  /\ setterRet = [s \in Setters |-> "ok"]
  /\ writerPc = "none" /\ writerBuf = NoPacket /\ writerRet = "ok"
  /\ closePc = "idle" /\ centralPc = "idle"
  /\ sets = 0 /\ session = 0
  /\ wire = <<>> /\ blankSent = FALSE /\ lastRet = "ok"
  /\ checkedIn = [s \in Setters |-> 0] /\ staleSender = FALSE

-----------------------------------------------------------------------------
(* A property setter: TESTATTACHED, then the SENDPACKET macro.             *)

goto(pc, s, label) == [pc EXCEPT ![s] = label]

\* TESTATTACHED at the head of the setter.
SetCall(s) ==
  /\ setterPc[s] = "idle" /\ status = "attached" /\ sets < MaxSets
  /\ setterPc' = goto(setterPc, s, "lock")
  /\ sets' = sets + 1
  /\ UNCHANGED <<notSetter, eventVars, outputPacket, writelock, property,
                 newVal, setterRet, lastRet, checkedIn,
                 staleSender>>

\* Mutants: writelock is not waited for; makePacket's failure is ignored.
LockNotTaken(s) ==
  /\ setterPc[s] = "lock"
  /\ writelock' = s
  /\ property' = property + 1
  /\ newVal' = [newVal EXCEPT ![s] = property + 1]
  /\ setterPc' = goto(setterPc, s, "again")
  /\ UNCHANGED <<notSetter, eventVars, outputPacket, setterRet, sets,
                 lastRet, checkedIn, staleSender>>

\* Takes writelock, assigns one property and makes the packet from all of them:
\* newVal is the version it encodes.  (makePacket fails only once a detach has
\* cleared deviceIDSpec; sendpacket then fails in the same way.)
LockAndAssign(s) ==
  /\ setterPc[s] = "lock" /\ writelock = NoThread
  /\ writelock' = s
  /\ property' = property + 1
  /\ newVal' = [newVal EXCEPT ![s] = property + 1]
  /\ setterPc' = goto(setterPc, s, "again")
  /\ UNCHANGED <<notSetter, eventVars, outputPacket, setterRet, sets,
                 lastRet, checkedIn, staleSender>>

\* again: the ATTACHED test of sendpacket, made without any lock.
TestAttached(s) ==
  /\ setterPc[s] = "again"
  /\ \/ /\ status = "attached"
        /\ setterPc' = goto(setterPc, s, "store")
        /\ checkedIn' = [checkedIn EXCEPT ![s] = session]
        /\ UNCHANGED setterRet
     \/ /\ status # "attached"
        /\ setterPc' = goto(setterPc, s, "unlock")
        /\ setterRet' = [setterRet EXCEPT ![s] = "notAttached"]
        /\ UNCHANGED checkedIn
  /\ UNCHANGED <<notSetter, eventVars, outputPacket, writelock, property,
                 newVal, sets, lastRet, staleSender>>

\* The critical section of sendpacket when the queue is free.
StorePacket(s) ==
  /\ setterPc[s] = "store" /\ outputPacket = NoPacket
  /\ outputPacket' = newVal[s]
  /\ written' = FALSE
  /\ staleSender' = (staleSender \/ checkedIn[s] # session)
  /\ setterPc' = goto(setterPc, s, "signal")
  /\ UNCHANGED <<notSetter, writeAvailable, writelock, property, newVal,
                 setterRet, sets, lastRet, checkedIn>>

\* The critical section when it is full, and the entry of the wait: a set
\* event returns at once.
QueueFull(s) ==
  /\ setterPc[s] = "store" /\ outputPacket # NoPacket
  /\ setterPc' = goto(setterPc, s, IF written THEN "again" ELSE "waiting")
  /\ UNCHANGED <<notSetter, eventVars, outputPacket, writelock, property,
                 newVal, setterRet, sets, lastRet, checkedIn,
                 staleSender>>

\* Blocked in CThread_wait_on_event(&writtenEvent, 1500).
AwaitWritten(s) ==
  /\ setterPc[s] = "waiting"
  /\ \/ /\ written \/ SpuriousWakeups
        /\ setterPc' = goto(setterPc, s, "again")
        /\ UNCHANGED setterRet
     \/ /\ setterPc' = goto(setterPc, s, "unlock")
        /\ setterRet' = [setterRet EXCEPT ![s] = "timeout"]
  /\ UNCHANGED <<notSetter, eventVars, outputPacket, writelock, property,
                 newVal, sets, lastRet, checkedIn, staleSender>>

\* CThread_set_event(&writeAvailableEvent); return 0.
SignalWriter(s) ==
  /\ setterPc[s] = "signal"
  /\ writeAvailable' = TRUE
  /\ staleSender' = (staleSender \/ checkedIn[s] # session)
  /\ setterRet' = [setterRet EXCEPT ![s] = "ok"]
  /\ setterPc' = goto(setterPc, s, "unlock")
  /\ UNCHANGED <<notSetter, outputPacket, written, writelock, property,
                 newVal, sets, lastRet, checkedIn>>

\* Mutant: an error returns without the unlock.
KeepLockOnError(s) ==
  /\ setterPc[s] = "unlock"
  /\ writelock' = IF setterRet[s] = "ok" THEN NoThread ELSE writelock
  /\ setterPc' = goto(setterPc, s, "idle")
  /\ UNCHANGED <<notSetter, eventVars, outputPacket, property, newVal,
                 setterRet, sets, lastRet, checkedIn, staleSender>>

\* done: unlocks whatever sendpacket returned.  A rejected call's value stays in
\* the property, and so in the packet of the next call that is accepted.
UnlockAndReturn(s) ==
  /\ setterPc[s] = "unlock"
  /\ writelock' = NoThread
  /\ lastRet' = setterRet[s]
  /\ setterPc' = goto(setterPc, s, "idle")
  /\ UNCHANGED <<notSetter, eventVars, outputPacket, property, newVal,
                 setterRet, sets, checkedIn, staleSender>>

Setter(s) ==
  \/ SetCall(s) \/ LockAndAssign(s) \/ TestAttached(s) \/ StorePacket(s)
  \/ QueueFull(s) \/ AwaitWritten(s) \/ SignalWriter(s) \/ UnlockAndReturn(s)

-----------------------------------------------------------------------------
(* WriteThreadFunction and CPhidget_write.                                 *)

\* The loop's ATTACHED test and the entry of the 200 ms wait.
WriterLoop ==
  /\ writerPc = "loop"
  /\ writerPc' = IF status # "attached" THEN "exit"
                 ELSE IF writeAvailable THEN "reset" ELSE "waiting"
  /\ UNCHANGED <<notWriter, eventVars, usbError, outputPacket, writeStopFlag,
                 writerBuf, writerRet, wire, blankSent>>

WriterWait ==
  /\ writerPc = "waiting"
  /\ \/ /\ writeAvailable \/ SpuriousWakeups
        /\ writerPc' = "reset"
     \/ writerPc' = "timedOut"
  /\ UNCHANGED <<notWriter, eventVars, usbError, outputPacket, writeStopFlag,
                 writerBuf, writerRet, wire, blankSent>>

\* Mutant: writeStopFlag is not looked at.
StopIgnored ==
  /\ writerPc = "timedOut"
  /\ writerPc' = IF Awdc THEN "reset" ELSE "loop"
  /\ UNCHANGED <<notWriter, eventVars, usbError, outputPacket, writeStopFlag,
                 writerBuf, writerRet, wire, blankSent>>

\* WAIT_TIMEOUT: stop if asked to; write anyway if awdc_enabled.
WriterTimedOut ==
  /\ writerPc = "timedOut"
  /\ writerPc' = IF writeStopFlag THEN "exit"
                 ELSE IF Awdc THEN "reset" ELSE "loop"
  /\ UNCHANGED <<notWriter, eventVars, usbError, outputPacket, writeStopFlag,
                 writerBuf, writerRet, wire, blankSent>>

\* CPhidget_write: CThread_reset_event(&writeAvailableEvent).
ResetAvailable ==
  /\ writerPc = "reset"
  /\ writeAvailable' = FALSE
  /\ writerPc' = "get"
  /\ UNCHANGED <<notWriter, usbError, outputPacket, written, writeStopFlag,
                 writerBuf, writerRet, wire, blankSent>>

\* Mutant: outputPacketLen is not cleared.
GetPacketKept ==
  /\ writerPc = "get"
  /\ writerBuf' = outputPacket
  /\ writerPc' = "send"
  /\ UNCHANGED <<notWriter, eventVars, usbError, outputPacket, writeStopFlag,
                 writerRet, wire, blankSent>>

\* fptrGetPacket: an empty queue yields an empty packet and EPHIDGET_OK.
GetPacket ==
  /\ writerPc = "get"
  /\ writerBuf' = outputPacket
  /\ outputPacket' = NoPacket
  /\ writerPc' = "send"
  /\ UNCHANGED <<notWriter, eventVars, usbError, writeStopFlag, writerRet,
                 wire, blankSent>>

\* The tests at the head of CUSBSendPacket.
StartTransfer ==
  /\ writerPc = "send"
  /\ \/ /\ status = "detached"
        /\ writerPc' = "signal" /\ writerRet' = "notAttached"
     \/ /\ status # "detached" /\ ~deviceHandle
        /\ writerPc' = "signal" /\ writerRet' = "unexpected"
     \/ /\ status # "detached" /\ deviceHandle
        /\ writerPc' = "transfer" /\ UNCHANGED writerRet
  /\ UNCHANGED <<notWriter, eventVars, usbError, outputPacket, writeStopFlag,
                 writerBuf, wire, blankSent>>

\* The libusb transfer: delivered, timed out, failed, or no such device.
Transfer ==
  /\ writerPc = "transfer"
  /\ writerPc' = "signal"
  /\ \/ /\ ~unplugged
        /\ writerRet' = "ok"
        /\ wire' = IF writerBuf = NoPacket THEN wire ELSE Append(wire, writerBuf)
        /\ blankSent' = (blankSent \/ writerBuf = NoPacket)
     \/ /\ writerRet' \in IF unplugged THEN {"notAttached"}
                                       ELSE {"timeout", "unexpected"}
        /\ UNCHANGED <<wire, blankSent>>
  /\ writerBuf' = NoPacket
  /\ UNCHANGED <<notWriter, eventVars, usbError, outputPacket,
                 writeStopFlag>>

\* Mutant: writeAvailableEvent is reset after the write instead of before it.
ResetAfterWrite ==
  /\ writerPc = "signal"
  /\ written' = TRUE /\ writeAvailable' = FALSE
  /\ writerBuf' = NoPacket
  /\ writerPc' = IF writerRet = "ok" THEN "loop" ELSE "exit"
  /\ usbError' = (usbError \/ writerRet \in {"timeout", "unexpected"})
  /\ UNCHANGED <<notWriter, outputPacket, writeStopFlag, writerRet, wire,
                 blankSent>>

\* fail: sets writtenEvent whatever happened; an error ends the thread.
SignalWritten ==
  /\ writerPc = "signal"
  /\ written' = TRUE
  /\ writerBuf' = NoPacket
  /\ writerPc' = IF writerRet = "ok" THEN "loop" ELSE "exit"
  /\ usbError' = (usbError \/ writerRet \in {"timeout", "unexpected"})
  /\ UNCHANGED <<notWriter, outputPacket, writeAvailable, writeStopFlag,
                 writerRet, wire, blankSent>>

\* exit: writeStopFlag = FALSE; thread_status = FALSE.
WriterExit ==
  /\ writerPc = "exit"
  /\ writeStopFlag' = FALSE
  /\ writerPc' = "none" /\ writerRet' = "ok"
  /\ UNCHANGED <<notWriter, eventVars, usbError, outputPacket, writerBuf,
                 wire, blankSent>>

Writer ==
  \/ WriterLoop \/ WriterWait \/ WriterTimedOut \/ ResetAvailable \/ GetPacket
  \/ StartTransfer \/ Transfer \/ SignalWritten \/ WriterExit

-----------------------------------------------------------------------------
(* The central thread: attachActiveDevice, with openCloseLock held by      *)
(* findActiveDevice.                                                       *)

\* CUSBOpenHandle, ATTACHING, and initAfterOpen, which empties the queue and sets
\* the properties anew, without writelock: a call under way keeps its old packet.
AttachInit ==
  /\ centralPc = "idle" /\ openCloseLock = NoThread
  /\ opened /\ registered /\ status = "detached" /\ ~unplugged
  /\ session < MaxSessions
  /\ openCloseLock' = "central"
  /\ deviceHandle' = TRUE /\ status' = "attaching"
  /\ outputPacket' = NoPacket
  /\ property' = property + 1
  /\ session' = session + 1
  /\ centralPc' = "resetEvents"
  /\ UNCHANGED <<callVars, opened, registered, closePc, unplugged, writerVars,
                 eventVars, usbError, writeStopFlag>>

AttachResetEvents ==
  /\ centralPc = "resetEvents"
  /\ writeStopFlag' = FALSE /\ written' = FALSE /\ writeAvailable' = FALSE
  /\ centralPc' = "startWriter"
  /\ UNCHANGED <<notCentral, writerVars, status, usbError, deviceHandle,
                 outputPacket, openCloseLock, session>>

\* ATTACHED is set, then the write thread is created.
AttachStartWriter ==
  /\ centralPc = "startWriter"
  /\ status' = "attached"
  /\ writerPc' = "loop"
  /\ openCloseLock' = NoThread
  /\ centralPc' = "idle"
  /\ UNCHANGED <<notCentral, eventVars, usbError, deviceHandle, outputPacket,
                 writeStopFlag, writerBuf, writerRet, session, wire,
                 blankSent>>

(* CPhidgetDetachEvent, for an unplugged device or one with USB_ERROR set; *)
(* activeDevicesLock is held until the write thread is joined.             *)

DetachStop ==
  /\ centralPc = "idle" /\ registered /\ status = "attached"
  /\ unplugged \/ usbError
  /\ writeStopFlag' = TRUE
  /\ centralPc' = "wakeWriter"
  /\ UNCHANGED <<notCentral, writerVars, eventVars, status, usbError,
                 deviceHandle, outputPacket, openCloseLock, session>>

DetachWakeWriter ==
  /\ centralPc = "wakeWriter"
  /\ writeAvailable' = TRUE
  /\ centralPc' = "clearAttached"
  /\ UNCHANGED <<notCentral, writerVars, status, usbError, deviceHandle,
                 outputPacket, written, writeStopFlag, openCloseLock,
                 session>>

\* CUSBCloseHandle, first half.
DetachClearAttached ==
  /\ centralPc = "clearAttached"
  /\ status' = "detached"
  /\ centralPc' = "closeHandle"
  /\ UNCHANGED <<notCentral, writerVars, eventVars, usbError, deviceHandle,
                 outputPacket, writeStopFlag, openCloseLock, session>>

\* CUSBCloseHandle, second half: the handle is closed before the write
\* thread is joined.
DetachCloseHandle ==
  /\ centralPc = "closeHandle"
  /\ deviceHandle' = FALSE
  /\ centralPc' = "joinWriter"
  /\ UNCHANGED <<notCentral, writerVars, eventVars, status, usbError,
                 outputPacket, writeStopFlag, openCloseLock, session>>

DetachJoinWriter ==
  /\ centralPc = "joinWriter" /\ writerPc = "none"
  /\ usbError' = FALSE
  /\ centralPc' = "idle"
  /\ UNCHANGED <<notCentral, writerVars, eventVars, status, deviceHandle,
                 outputPacket, writeStopFlag, openCloseLock, session>>

activeDevicesLockFree ==
  centralPc \notin {"wakeWriter", "clearAttached", "closeHandle", "joinWriter"}

Central ==
  \/ AttachInit \/ AttachResetEvents \/ AttachStartWriter
  \/ DetachStop \/ DetachWakeWriter \/ DetachClearAttached
  \/ DetachCloseHandle \/ DetachJoinWriter

-----------------------------------------------------------------------------
(* CPhidget_close, and the CPhidget_open that may follow it.               *)

CloseUnregister ==
  /\ closePc = "idle" /\ opened
  /\ openCloseLock = NoThread /\ activeDevicesLockFree
  /\ openCloseLock' = "close"
  /\ registered' = FALSE
  /\ closePc' = "unregistered"
  /\ UNCHANGED <<notClose, status, opened, deviceHandle, writeStopFlag>>

\* Only an attached handle has threads to stop.
CloseStop ==
  /\ closePc = "unregistered"
  /\ \/ /\ status = "attached"
        /\ writeStopFlag' = TRUE /\ closePc' = "joinWriter"
     \/ /\ status # "attached"
        /\ closePc' = "finish" /\ UNCHANGED writeStopFlag
  /\ UNCHANGED <<notClose, status, opened, registered, deviceHandle,
                 openCloseLock>>

\* Mutant: the write thread is not joined.
CloseWithoutJoin ==
  /\ closePc = "joinWriter"
  /\ closePc' = "clearAttached"
  /\ UNCHANGED <<notClose, status, opened, registered, deviceHandle,
                 writeStopFlag, openCloseLock>>

CloseJoinWriter ==
  /\ closePc = "joinWriter" /\ writerPc = "none"
  /\ closePc' = "clearAttached"
  /\ UNCHANGED <<notClose, status, opened, registered, deviceHandle,
                 writeStopFlag, openCloseLock>>

CloseClearAttached ==
  /\ closePc = "clearAttached"
  /\ status' = "detached"
  /\ closePc' = "closeHandle"
  /\ UNCHANGED <<notClose, opened, registered, deviceHandle, writeStopFlag,
                 openCloseLock>>

CloseCloseHandle ==
  /\ closePc = "closeHandle"
  /\ deviceHandle' = FALSE
  /\ closePc' = "finish"
  /\ UNCHANGED <<notClose, status, opened, registered, writeStopFlag,
                 openCloseLock>>

CloseReturn ==
  /\ closePc = "finish"
  /\ opened' = FALSE
  /\ openCloseLock' = NoThread
  /\ closePc' = "idle"
  /\ UNCHANGED <<notClose, status, registered, deviceHandle, writeStopFlag>>

Close ==
  \/ CloseUnregister \/ CloseStop \/ CloseJoinWriter \/ CloseClearAttached
  \/ CloseCloseHandle \/ CloseReturn

Reopen ==
  /\ ~opened /\ openCloseLock = NoThread /\ activeDevicesLockFree
  /\ session < MaxSessions
  /\ opened' = TRUE /\ registered' = TRUE
  /\ UNCHANGED <<notClose, status, deviceHandle, writeStopFlag,
                 openCloseLock, closePc>>

(* The cable: pulled while the handle is attached, put back once the       *)
(* detach has been noticed.                                                *)

Unplug ==
  /\ ~unplugged /\ status = "attached"
  /\ unplugged' = TRUE
  /\ UNCHANGED <<userVars, writerVars, handleVars, eventVars, centralVars,
                 status, usbError, deviceHandle, outputPacket,
                 writeStopFlag>>

Replug ==
  /\ unplugged /\ status = "detached"
  /\ unplugged' = FALSE
  /\ UNCHANGED <<userVars, writerVars, handleVars, eventVars, centralVars,
                 status, usbError, deviceHandle, outputPacket,
                 writeStopFlag>>

Next == \/ \E s \in Setters : Setter(s)
        \/ Writer \/ Central \/ Close \/ Reopen \/ Unplug \/ Replug

Spec == Init /\ [][Next]_vars

-----------------------------------------------------------------------------
(* The scheduling the code relies on.  Threads that can run do run, waits   *)
(* time out, and the central thread polls every 250 ms, so it notices a     *)
(* device that is gone or in error.  Nobody has to call a setter, close,    *)
(* open or pull the cable.                                                 *)

SetterRuns(s) == Setter(s) /\ setterPc[s] # "idle"
CloseRuns     == Close /\ closePc # "idle"

Fairness ==
  /\ \A s \in Setters : WF_vars(SetterRuns(s))
  /\ WF_vars(Writer) /\ WF_vars(Central) /\ WF_vars(CloseRuns)

FairSpec == Spec /\ Fairness

-----------------------------------------------------------------------------
(* Properties.                                                             *)

Labels == {"idle", "lock", "again", "store", "waiting", "signal", "unlock"}
WriterLabels == {"none", "loop", "waiting", "timedOut", "reset", "get", "send",
                 "transfer", "signal", "exit"}
Results == {"ok", "notAttached", "timeout", "unexpected"}

\* The variables the setters write.
SetterTypes ==
  /\ writelock \in Setters \cup {NoThread}
  /\ property \in Nat /\ sets \in Nat
  /\ setterPc \in [Setters -> Labels]
  /\ newVal \in [Setters -> Nat]
  /\ setterRet \in [Setters -> Results]
  /\ checkedIn \in [Setters -> Nat]
  /\ lastRet \in Results
  /\ staleSender \in BOOLEAN

\* Those of the queue, its events and the write thread.
QueueTypes ==
  /\ outputPacket \in Packets \cup {NoPacket}
  /\ writerBuf \in Packets \cup {NoPacket}
  /\ wire \in Seq(Packets)
  /\ writerPc \in WriterLabels /\ writerRet \in Results
  /\ writeAvailable \in BOOLEAN /\ written \in BOOLEAN
  /\ writeStopFlag \in BOOLEAN /\ blankSent \in BOOLEAN

\* Those of open, close, attach and detach.
HandleTypes ==
  /\ status \in {"detached", "attaching", "attached"}
  /\ opened \in BOOLEAN /\ registered \in BOOLEAN
  /\ usbError \in BOOLEAN /\ deviceHandle \in BOOLEAN /\ unplugged \in BOOLEAN
  /\ openCloseLock \in {"close", "central", NoThread}
  /\ closePc \in {"idle", "unregistered", "joinWriter", "clearAttached",
                  "closeHandle", "finish"}
  /\ centralPc \in {"idle", "resetEvents", "startWriter", "wakeWriter",
                    "clearAttached", "closeHandle", "joinWriter"}
  /\ session \in Nat

\* The values the variables of the output path take.
TypeOK == SetterTypes /\ QueueTypes /\ HandleTypes

\* The device receives the values in the order in which the setters assigned
\* the property, each at most once, across failed transfers, detaches and
\* re-attaches; a packet still on its way is newer than all it has received.
WireInOrder ==
  /\ \A i, j \in 1 .. Len(wire) : i < j => wire[i] < wire[j]
  /\ \A i \in 1 .. Len(wire) :
       \A p \in {writerBuf, outputPacket} \ {NoPacket} : wire[i] < p
  /\ writerBuf # NoPacket /\ outputPacket # NoPacket => writerBuf < outputPacket

\* A packet in the queue of a live write thread has a wake-up on its way: the
\* event is set, or the setter that stored it is about to set it.  CPhidget_write
\* resets the event before it empties the queue for this reason.  (A setter
\* whose ATTACHED test is older than the present session can defeat it: its
\* packet and its signal may fall on the two sides of attachActiveDevice's reset.)
NoLostWakeup ==
  /\ outputPacket # NoPacket /\ ~staleSender
  /\ writerPc \in {"loop", "waiting", "timedOut", "send", "transfer", "signal"}
  => writeAvailable \/ \E s \in Setters : setterPc[s] = "signal"

\* When everything is quiet and the last set call succeeded in this session,
\* the device holds all that the property getters report: the values of the
\* accepted calls, and those that calls rejected before the last one left.
Converged ==
  /\ status = "attached" /\ centralPc = "idle" /\ writerPc = "waiting"
  /\ outputPacket = NoPacket /\ lastRet = "ok" /\ ~staleSender
  /\ \A s \in Setters : setterPc[s] \in {"idle", "lock"}
  /\ \E s \in Setters : newVal[s] = property /\ checkedIn[s] = session
  => Len(wire) > 0 /\ wire[Len(wire)] = property

\* CPhidget_close joins the write thread before CUSBCloseHandle, so no transfer
\* is under way on the handle it closes, and none can start.
NoTransferWhileClosing ==
  closePc \in {"clearAttached", "closeHandle", "finish"} => writerPc = "none"

\* Every set call returns: writelock is released on every path of SENDPACKET,
\* and the wait for a free queue ends, even when the write thread has died.
SetReturns ==
  \A s \in Setters : setterPc[s] # "idle" ~> setterPc[s] = "idle"

\* CPhidget_close returns, whatever the write thread and the setters were doing,
\* if the users stop calling setters.  The write thread looks at writeStopFlag
\* only when no packet came for 200 ms, and ATTACHED is cleared after the join:
\* users who set more often than that keep close waiting for ever.
CloseReturns ==
  <>[](\A s \in Setters : setterPc[s] = "idle")
  => (closePc # "idle" ~> closePc = "idle")

-----------------------------------------------------------------------------
(* The inductive invariant behind TypeOK, WireInOrder,                      *)
(* NoTransferWhileClosing and ImplementsChannel.                           *)

BeforeStore == {"again", "store", "waiting"}

\* A setter is inside SENDPACKET exactly while it holds writelock.
LockDiscipline ==
  \A s \in Setters :
    setterPc[s] \in BeforeStore \cup {"signal", "unlock"} <=> writelock = s

\* p is newer than every packet on its way or received.
Fresh(p) ==
  /\ \A i \in 1 .. Len(wire) : wire[i] < p
  /\ \A q \in {writerBuf, outputPacket} \ {NoPacket} : q < p

\* Nothing is newer than the properties; while the packet of the current call is
\* not stored, nothing is as new as that packet.
Numbering ==
  /\ Fresh(property + 1)
  /\ \A s \in Setters :
       setterPc[s] \in BeforeStore => newVal[s] <= property /\ Fresh(newVal[s])

\* The write thread holds a packet only inside CPhidget_write.
BufferEmpty ==
  writerPc \notin {"send", "transfer", "signal"} => writerBuf = NoPacket

\* Who may be attaching, detaching and closing at the same time, and when the
\* write thread is known to be gone.
WriterLife ==
  /\ status = "attaching" <=> centralPc \in {"resetEvents", "startWriter"}
  /\ openCloseLock = "central" <=> centralPc \in {"resetEvents", "startWriter"}
  /\ openCloseLock = "close" <=> closePc # "idle"
  /\ closePc # "idle" => ~registered
  /\ ~activeDevicesLockFree => registered
  /\ centralPc \in {"wakeWriter", "clearAttached"} => status = "attached"
  /\ centralPc \in {"closeHandle", "joinWriter"} => status = "detached"
  /\ closePc \in {"joinWriter", "clearAttached"} => status = "attached"
  /\ closePc \in {"closeHandle", "finish"} => status = "detached"
  /\ closePc \in {"clearAttached", "closeHandle", "finish"} => writerPc = "none"
  /\ status # "attached" /\ centralPc \notin {"closeHandle", "joinWriter"}
     => writerPc = "none"

\* The inductive invariant.
IInv ==
  /\ TypeOK /\ LockDiscipline /\ Numbering /\ WireInOrder
  /\ BufferEmpty /\ WriterLife

-----------------------------------------------------------------------------
(* Refinement: the write thread's buffer and the queue, oldest first, are   *)
(* the channel of PacketChannel.                                           *)

asSeq(p) == IF p = NoPacket THEN <<>> ELSE <<p>>
inChannel == asSeq(writerBuf) \o asSeq(outputPacket)

Channel == INSTANCE PacketChannel WITH channel <- inChannel, delivered <- wire

\* The output path implements the channel: no interleaving of setters, write
\* thread, attach, detach and close reorders, repeats or invents a packet.
ImplementsChannel == Channel!ChannelSpec
=============================================================================
