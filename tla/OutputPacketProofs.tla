------------------------- MODULE OutputPacketProofs -------------------------
(***************************************************************************)
(* Machine-checked proofs about OutputPacket, for every set of setters, any  *)
(* number of set calls and sessions, with and without awdc and spurious     *)
(* wake-ups.                                                               *)
(***************************************************************************)
EXTENDS OutputPacket, SequenceTheorems, TLAPS

(***************************************************************************)
(* Type correctness, thread by thread.                                     *)
(***************************************************************************)
\* A step of a setter keeps the types.
LEMMA SetterType ==
  ASSUME TypeOK, NEW s \in Setters, Setter(s)
  PROVE  TypeOK'
<1> USE DEF TypeOK, goto, Labels, WriterLabels, Results, Packets
<1> USE DEF notSetter, notWriter, notCentral, notClose, userVars, callVars, writerVars, deviceVars,
            handleVars, centralVars, eventVars
<1>1. CASE SetCall(s)
  <2>1. SetterTypes'
    BY <1>1 DEF SetCall, SetterTypes, QueueTypes, HandleTypes
  <2>2. QueueTypes'
    BY <1>1 DEF SetCall, SetterTypes, QueueTypes
  <2>3. HandleTypes'
    BY <1>1 DEF SetCall, QueueTypes, HandleTypes
  <2>4. QED
    BY <2>1, <2>2, <2>3
<1>2. CASE LockAndAssign(s)
  <2>1. SetterTypes'
    BY <1>2 DEF LockAndAssign, SetterTypes, QueueTypes, HandleTypes
  <2>2. QueueTypes'
    BY <1>2 DEF LockAndAssign, SetterTypes, QueueTypes
  <2>3. HandleTypes'
    BY <1>2 DEF LockAndAssign, QueueTypes, HandleTypes
  <2>4. QED
    BY <2>1, <2>2, <2>3
<1>3. CASE TestAttached(s)
  <2>1. SetterTypes'
    BY <1>3 DEF TestAttached, SetterTypes, QueueTypes, HandleTypes
  <2>2. QueueTypes'
    BY <1>3 DEF TestAttached, SetterTypes, QueueTypes
  <2>3. HandleTypes'
    BY <1>3 DEF TestAttached, QueueTypes, HandleTypes
  <2>4. QED
    BY <2>1, <2>2, <2>3
<1>4. CASE StorePacket(s)
  <2>1. SetterTypes'
    BY <1>4 DEF StorePacket, SetterTypes, QueueTypes, HandleTypes
  <2>2. QueueTypes'
    BY <1>4 DEF StorePacket, SetterTypes, QueueTypes
  <2>3. HandleTypes'
    BY <1>4 DEF StorePacket, QueueTypes, HandleTypes
  <2>4. QED
    BY <2>1, <2>2, <2>3
<1>5. CASE QueueFull(s)
  <2>1. SetterTypes'
    BY <1>5 DEF QueueFull, SetterTypes, QueueTypes, HandleTypes
  <2>2. QueueTypes'
    BY <1>5 DEF QueueFull, SetterTypes, QueueTypes
  <2>3. HandleTypes'
    BY <1>5 DEF QueueFull, QueueTypes, HandleTypes
  <2>4. QED
    BY <2>1, <2>2, <2>3
<1>6. CASE AwaitWritten(s)
  <2>1. SetterTypes'
    BY <1>6 DEF AwaitWritten, SetterTypes, QueueTypes, HandleTypes
  <2>2. QueueTypes'
    BY <1>6 DEF AwaitWritten, SetterTypes, QueueTypes
  <2>3. HandleTypes'
    BY <1>6 DEF AwaitWritten, QueueTypes, HandleTypes
  <2>4. QED
    BY <2>1, <2>2, <2>3
<1>7. CASE SignalWriter(s)
  <2>1. SetterTypes'
    BY <1>7 DEF SignalWriter, SetterTypes, QueueTypes, HandleTypes
  <2>2. QueueTypes'
    BY <1>7 DEF SignalWriter, SetterTypes, QueueTypes
  <2>3. HandleTypes'
    BY <1>7 DEF SignalWriter, QueueTypes, HandleTypes
  <2>4. QED
    BY <2>1, <2>2, <2>3
<1>8. CASE UnlockAndReturn(s)
  <2>1. SetterTypes'
    BY <1>8 DEF UnlockAndReturn, SetterTypes, QueueTypes, HandleTypes
  <2>2. QueueTypes'
    BY <1>8 DEF UnlockAndReturn, SetterTypes, QueueTypes
  <2>3. HandleTypes'
    BY <1>8 DEF UnlockAndReturn, QueueTypes, HandleTypes
  <2>4. QED
    BY <2>1, <2>2, <2>3
<1>9. QED
  BY <1>1, <1>2, <1>3, <1>4, <1>5, <1>6, <1>7, <1>8 DEF Setter

\* A step of the write thread keeps the types.
LEMMA WriterType ==
  ASSUME TypeOK, Writer
  PROVE  TypeOK'
<1> USE DEF TypeOK, goto, Labels, WriterLabels, Results, Packets
<1> USE DEF notSetter, notWriter, notCentral, notClose, userVars, callVars, writerVars, deviceVars,
            handleVars, centralVars, eventVars
<1>1. CASE WriterLoop
  <2>1. SetterTypes'
    BY <1>1 DEF WriterLoop, SetterTypes, QueueTypes, HandleTypes
  <2>2. QueueTypes'
    BY <1>1 DEF WriterLoop, SetterTypes, QueueTypes
  <2>3. HandleTypes'
    BY <1>1 DEF WriterLoop, QueueTypes, HandleTypes
  <2>4. QED
    BY <2>1, <2>2, <2>3
<1>2. CASE WriterWait
  <2>1. SetterTypes'
    BY <1>2 DEF WriterWait, SetterTypes, QueueTypes, HandleTypes
  <2>2. QueueTypes'
    BY <1>2 DEF WriterWait, SetterTypes, QueueTypes
  <2>3. HandleTypes'
    BY <1>2 DEF WriterWait, QueueTypes, HandleTypes
  <2>4. QED
    BY <2>1, <2>2, <2>3
<1>3. CASE WriterTimedOut
  <2>1. SetterTypes'
    BY <1>3 DEF WriterTimedOut, SetterTypes, QueueTypes, HandleTypes
  <2>2. QueueTypes'
    BY <1>3 DEF WriterTimedOut, SetterTypes, QueueTypes
  <2>3. HandleTypes'
    BY <1>3 DEF WriterTimedOut, QueueTypes, HandleTypes
  <2>4. QED
    BY <2>1, <2>2, <2>3
<1>4. CASE ResetAvailable
  <2>1. SetterTypes'
    BY <1>4 DEF ResetAvailable, SetterTypes, QueueTypes, HandleTypes
  <2>2. QueueTypes'
    BY <1>4 DEF ResetAvailable, SetterTypes, QueueTypes
  <2>3. HandleTypes'
    BY <1>4 DEF ResetAvailable, QueueTypes, HandleTypes
  <2>4. QED
    BY <2>1, <2>2, <2>3
<1>5. CASE GetPacket
  <2>1. SetterTypes'
    BY <1>5 DEF GetPacket, SetterTypes, QueueTypes, HandleTypes
  <2>2. QueueTypes'
    BY <1>5 DEF GetPacket, SetterTypes, QueueTypes
  <2>3. HandleTypes'
    BY <1>5 DEF GetPacket, QueueTypes, HandleTypes
  <2>4. QED
    BY <2>1, <2>2, <2>3
<1>6. CASE StartTransfer
  <2>1. SetterTypes'
    BY <1>6 DEF StartTransfer, SetterTypes, QueueTypes, HandleTypes
  <2>2. QueueTypes'
    BY <1>6 DEF StartTransfer, SetterTypes, QueueTypes
  <2>3. HandleTypes'
    BY <1>6 DEF StartTransfer, QueueTypes, HandleTypes
  <2>4. QED
    BY <2>1, <2>2, <2>3
<1>7. CASE Transfer
  <2>1. SetterTypes'
    BY <1>7 DEF Transfer, SetterTypes, QueueTypes, HandleTypes
  <2>2. QueueTypes'
    <3>1. wire' \in Seq(Packets)
      BY <1>7 DEF Transfer, QueueTypes
    <3>2. blankSent' \in BOOLEAN
      BY <1>7, Zenon DEF Transfer, QueueTypes
    <3>3. writerRet' \in Results
      BY <1>7 DEF Transfer
    <3>4. QED
      BY <1>7, <3>1, <3>2, <3>3 DEF Transfer, QueueTypes
  <2>3. HandleTypes'
    BY <1>7 DEF Transfer, QueueTypes, HandleTypes
  <2>4. QED
    BY <2>1, <2>2, <2>3
<1>8. CASE SignalWritten
  <2>1. SetterTypes'
    BY <1>8 DEF SignalWritten, SetterTypes, QueueTypes, HandleTypes
  <2>2. QueueTypes'
    BY <1>8 DEF SignalWritten, SetterTypes, QueueTypes
  <2>3. HandleTypes'
    BY <1>8 DEF SignalWritten, QueueTypes, HandleTypes
  <2>4. QED
    BY <2>1, <2>2, <2>3
<1>9. CASE WriterExit
  <2>1. SetterTypes'
    BY <1>9 DEF WriterExit, SetterTypes, QueueTypes, HandleTypes
  <2>2. QueueTypes'
    BY <1>9 DEF WriterExit, SetterTypes, QueueTypes
  <2>3. HandleTypes'
    BY <1>9 DEF WriterExit, QueueTypes, HandleTypes
  <2>4. QED
    BY <2>1, <2>2, <2>3
<1>10. QED
  BY <1>1, <1>2, <1>3, <1>4, <1>5, <1>6, <1>7, <1>8, <1>9 DEF Writer

\* A step of the central thread keeps the types.
LEMMA CentralType ==
  ASSUME TypeOK, Central
  PROVE  TypeOK'
<1> USE DEF TypeOK, goto, Labels, WriterLabels, Results, Packets
<1> USE DEF notSetter, notWriter, notCentral, notClose, userVars, callVars, writerVars, deviceVars,
            handleVars, centralVars, eventVars
<1>1. CASE AttachInit
  <2>1. SetterTypes'
    BY <1>1 DEF AttachInit, SetterTypes, QueueTypes, HandleTypes
  <2>2. QueueTypes'
    BY <1>1 DEF AttachInit, SetterTypes, QueueTypes
  <2>3. HandleTypes'
    BY <1>1 DEF AttachInit, QueueTypes, HandleTypes
  <2>4. QED
    BY <2>1, <2>2, <2>3
<1>2. CASE AttachResetEvents
  <2>1. SetterTypes'
    BY <1>2 DEF AttachResetEvents, SetterTypes, QueueTypes, HandleTypes
  <2>2. QueueTypes'
    BY <1>2 DEF AttachResetEvents, SetterTypes, QueueTypes
  <2>3. HandleTypes'
    BY <1>2 DEF AttachResetEvents, QueueTypes, HandleTypes
  <2>4. QED
    BY <2>1, <2>2, <2>3
<1>3. CASE AttachStartWriter
  <2>1. SetterTypes'
    BY <1>3 DEF AttachStartWriter, SetterTypes, QueueTypes, HandleTypes
  <2>2. QueueTypes'
    BY <1>3 DEF AttachStartWriter, SetterTypes, QueueTypes
  <2>3. HandleTypes'
    BY <1>3 DEF AttachStartWriter, QueueTypes, HandleTypes
  <2>4. QED
    BY <2>1, <2>2, <2>3
<1>4. CASE DetachStop
  <2>1. SetterTypes'
    BY <1>4 DEF DetachStop, SetterTypes, QueueTypes, HandleTypes
  <2>2. QueueTypes'
    BY <1>4 DEF DetachStop, SetterTypes, QueueTypes
  <2>3. HandleTypes'
    BY <1>4 DEF DetachStop, QueueTypes, HandleTypes
  <2>4. QED
    BY <2>1, <2>2, <2>3
<1>5. CASE DetachWakeWriter
  <2>1. SetterTypes'
    BY <1>5 DEF DetachWakeWriter, SetterTypes, QueueTypes, HandleTypes
  <2>2. QueueTypes'
    BY <1>5 DEF DetachWakeWriter, SetterTypes, QueueTypes
  <2>3. HandleTypes'
    BY <1>5 DEF DetachWakeWriter, QueueTypes, HandleTypes
  <2>4. QED
    BY <2>1, <2>2, <2>3
<1>6. CASE DetachClearAttached
  <2>1. SetterTypes'
    BY <1>6 DEF DetachClearAttached, SetterTypes, QueueTypes, HandleTypes
  <2>2. QueueTypes'
    BY <1>6 DEF DetachClearAttached, SetterTypes, QueueTypes
  <2>3. HandleTypes'
    BY <1>6 DEF DetachClearAttached, QueueTypes, HandleTypes
  <2>4. QED
    BY <2>1, <2>2, <2>3
<1>7. CASE DetachCloseHandle
  <2>1. SetterTypes'
    BY <1>7 DEF DetachCloseHandle, SetterTypes, QueueTypes, HandleTypes
  <2>2. QueueTypes'
    BY <1>7 DEF DetachCloseHandle, SetterTypes, QueueTypes
  <2>3. HandleTypes'
    BY <1>7 DEF DetachCloseHandle, QueueTypes, HandleTypes
  <2>4. QED
    BY <2>1, <2>2, <2>3
<1>8. CASE DetachJoinWriter
  <2>1. SetterTypes'
    BY <1>8 DEF DetachJoinWriter, SetterTypes, QueueTypes, HandleTypes
  <2>2. QueueTypes'
    BY <1>8 DEF DetachJoinWriter, SetterTypes, QueueTypes
  <2>3. HandleTypes'
    BY <1>8 DEF DetachJoinWriter, QueueTypes, HandleTypes
  <2>4. QED
    BY <2>1, <2>2, <2>3
<1>9. QED
  BY <1>1, <1>2, <1>3, <1>4, <1>5, <1>6, <1>7, <1>8 DEF Central

\* A step of CPhidget_close keeps the types.
LEMMA CloseType ==
  ASSUME TypeOK, Close
  PROVE  TypeOK'
<1> USE DEF TypeOK, goto, Labels, WriterLabels, Results, Packets
<1> USE DEF notSetter, notWriter, notCentral, notClose, userVars, callVars, writerVars, deviceVars,
            handleVars, centralVars, eventVars
<1>1. CASE CloseUnregister
  <2>1. SetterTypes'
    BY <1>1 DEF CloseUnregister, SetterTypes, QueueTypes, HandleTypes
  <2>2. QueueTypes'
    BY <1>1 DEF CloseUnregister, SetterTypes, QueueTypes
  <2>3. HandleTypes'
    BY <1>1 DEF CloseUnregister, QueueTypes, HandleTypes
  <2>4. QED
    BY <2>1, <2>2, <2>3
<1>2. CASE CloseStop
  <2>1. SetterTypes'
    BY <1>2 DEF CloseStop, SetterTypes, QueueTypes, HandleTypes
  <2>2. QueueTypes'
    BY <1>2, ZenonT(40) DEF CloseStop, SetterTypes, QueueTypes
  <2>3. HandleTypes'
    BY <1>2 DEF CloseStop, QueueTypes, HandleTypes
  <2>4. QED
    BY <2>1, <2>2, <2>3
<1>3. CASE CloseJoinWriter
  <2>1. SetterTypes'
    BY <1>3 DEF CloseJoinWriter, SetterTypes, QueueTypes, HandleTypes
  <2>2. QueueTypes'
    BY <1>3 DEF CloseJoinWriter, SetterTypes, QueueTypes
  <2>3. HandleTypes'
    BY <1>3 DEF CloseJoinWriter, QueueTypes, HandleTypes
  <2>4. QED
    BY <2>1, <2>2, <2>3
<1>4. CASE CloseClearAttached
  <2>1. SetterTypes'
    BY <1>4 DEF CloseClearAttached, SetterTypes, QueueTypes, HandleTypes
  <2>2. QueueTypes'
    BY <1>4 DEF CloseClearAttached, SetterTypes, QueueTypes
  <2>3. HandleTypes'
    BY <1>4 DEF CloseClearAttached, QueueTypes, HandleTypes
  <2>4. QED
    BY <2>1, <2>2, <2>3
<1>5. CASE CloseCloseHandle
  <2>1. SetterTypes'
    BY <1>5 DEF CloseCloseHandle, SetterTypes, QueueTypes, HandleTypes
  <2>2. QueueTypes'
    BY <1>5 DEF CloseCloseHandle, SetterTypes, QueueTypes
  <2>3. HandleTypes'
    BY <1>5 DEF CloseCloseHandle, QueueTypes, HandleTypes
  <2>4. QED
    BY <2>1, <2>2, <2>3
<1>6. CASE CloseReturn
  <2>1. SetterTypes'
    BY <1>6 DEF CloseReturn, SetterTypes, QueueTypes, HandleTypes
  <2>2. QueueTypes'
    BY <1>6 DEF CloseReturn, SetterTypes, QueueTypes
  <2>3. HandleTypes'
    BY <1>6 DEF CloseReturn, QueueTypes, HandleTypes
  <2>4. QED
    BY <2>1, <2>2, <2>3
<1>7. QED
  BY <1>1, <1>2, <1>3, <1>4, <1>5, <1>6 DEF Close

\* Opening the handle, and the cable, keep the types.
LEMMA CableType ==
  ASSUME TypeOK, Reopen \/ Unplug \/ Replug
  PROVE  TypeOK'
<1> USE DEF TypeOK, goto, Labels, WriterLabels, Results, Packets
<1> USE DEF notSetter, notWriter, notCentral, notClose, userVars, callVars, writerVars, deviceVars,
            handleVars, centralVars, eventVars
<1>1. CASE Reopen
  <2>1. SetterTypes'
    BY <1>1 DEF Reopen, SetterTypes, QueueTypes, HandleTypes
  <2>2. QueueTypes'
    BY <1>1 DEF Reopen, SetterTypes, QueueTypes
  <2>3. HandleTypes'
    BY <1>1 DEF Reopen, QueueTypes, HandleTypes
  <2>4. QED
    BY <2>1, <2>2, <2>3
<1>2. CASE Unplug
  <2>1. SetterTypes'
    BY <1>2 DEF Unplug, SetterTypes, QueueTypes, HandleTypes
  <2>2. QueueTypes'
    BY <1>2 DEF Unplug, SetterTypes, QueueTypes
  <2>3. HandleTypes'
    BY <1>2 DEF Unplug, QueueTypes, HandleTypes
  <2>4. QED
    BY <2>1, <2>2, <2>3
<1>3. CASE Replug
  <2>1. SetterTypes'
    BY <1>3 DEF Replug, SetterTypes, QueueTypes, HandleTypes
  <2>2. QueueTypes'
    BY <1>3 DEF Replug, SetterTypes, QueueTypes
  <2>3. HandleTypes'
    BY <1>3, ZenonT(40) DEF Replug, QueueTypes, HandleTypes
  <2>4. QED
    BY <2>1, <2>2, <2>3
<1>4. QED
  BY <1>1, <1>2, <1>3

LEMMA TypeStutter ==
  ASSUME TypeOK, UNCHANGED vars
  PROVE  TypeOK'
  BY DEF vars, userVars, callVars, writerVars, deviceVars, handleVars, centralVars,
         eventVars, TypeOK, SetterTypes, QueueTypes, HandleTypes

LEMMA TypeInit == Init => TypeOK
<1> SUFFICES ASSUME Init PROVE SetterTypes /\ QueueTypes /\ HandleTypes
  BY DEF TypeOK
<1>1. SetterTypes
  BY DEF Init, SetterTypes, Labels, Results
<1>2. QueueTypes
  <2>1. wire \in Seq(Packets)
    BY DEF Init
  <2>2. QED
    BY <2>1 DEF Init, QueueTypes, WriterLabels, Results, Packets
<1>3. HandleTypes
  BY DEF Init, HandleTypes, Packets
<1>4. QED
  BY <1>1, <1>2, <1>3

LEMMA TypeStep == TypeOK /\ [Next]_vars => TypeOK'
  BY SetterType, WriterType, CentralType, CloseType, CableType, TypeStutter
  DEF Next

(***************************************************************************)
(* The inductive invariant.                                                *)
(***************************************************************************)

\* Only the setters' steps touch writelock and their own program counters;
\* initAfterOpen may renew the properties.
LEMMA OnlySettersLock ==
  ASSUME [Next]_vars, ~ \E s \in Setters : Setter(s)
  PROVE  UNCHANGED callVars /\ property' \in {property, property + 1}
<1> USE DEF userVars
<1>1. CASE Writer
  BY <1>1 DEF Writer, WriterLoop, WriterWait, WriterTimedOut, ResetAvailable,
     GetPacket, StartTransfer, Transfer, SignalWritten, WriterExit, notWriter
<1>2. CASE Central
  BY <1>2 DEF Central, AttachInit, AttachResetEvents, AttachStartWriter,
     DetachStop, DetachWakeWriter, DetachClearAttached, DetachCloseHandle,
     DetachJoinWriter, notCentral
<1>3. CASE Close
  BY <1>3 DEF Close, CloseUnregister, CloseStop, CloseJoinWriter,
     CloseClearAttached, CloseCloseHandle, CloseReturn, notClose
<1>4. CASE Reopen \/ Unplug \/ Replug
  BY <1>4 DEF Reopen, Unplug, Replug, notClose, notSetter, notWriter, notCentral
<1>5. CASE UNCHANGED vars
  BY <1>5 DEF vars
<1>6. QED
  BY <1>1, <1>2, <1>3, <1>4, <1>5 DEF Next

\* A setter is inside SENDPACKET exactly while it holds writelock.
LEMMA LockStep ==
  ASSUME TypeOK, LockDiscipline, [Next]_vars
  PROVE  LockDiscipline'
<1> USE SettersAssumption DEF LockDiscipline, BeforeStore, TypeOK, SetterTypes, Labels, goto
<1>1. ASSUME NEW s \in Setters, Setter(s) PROVE LockDiscipline'
  <2>1. CASE SetCall(s)
    BY <2>1 DEF SetCall
  <2>2. CASE LockAndAssign(s)
    BY <2>2 DEF LockAndAssign
  <2>3. CASE TestAttached(s)
    BY <2>3 DEF TestAttached
  <2>4. CASE StorePacket(s)
    BY <2>4 DEF StorePacket
  <2>5. CASE QueueFull(s)
    BY <2>5 DEF QueueFull
  <2>6. CASE AwaitWritten(s)
    BY <2>6 DEF AwaitWritten
  <2>7. CASE SignalWriter(s)
    BY <2>7 DEF SignalWriter
  <2>8. CASE UnlockAndReturn(s)
    BY <2>8 DEF UnlockAndReturn
  <2>9. QED
    BY <1>1, <2>1, <2>2, <2>3, <2>4, <2>5, <2>6, <2>7, <2>8 DEF Setter
<1>2. CASE ~ \E s \in Setters : Setter(s)
  BY <1>2, OnlySettersLock DEF userVars, callVars
<1>3. QED
  BY <1>1, <1>2

\* attach, detach and close keep out of each other's way, and the write thread
\* is gone when they believe it is.
LEMMA WriterLifeStep ==
  ASSUME TypeOK, WriterLife, [Next]_vars
  PROVE  WriterLife'
<1> USE HolderAssumption DEF WriterLife, activeDevicesLockFree, TypeOK, HandleTypes, QueueTypes
<1> USE DEF notSetter, notWriter, notCentral, notClose, userVars, callVars, writerVars,
             deviceVars, handleVars, centralVars, eventVars
<1>1. ASSUME NEW s \in Setters, Setter(s) PROVE WriterLife'
  BY <1>1 DEF Setter, SetCall, LockAndAssign, TestAttached, StorePacket,
              QueueFull, AwaitWritten, SignalWriter, UnlockAndReturn
<1>2. CASE Writer
  <2>1. CASE WriterLoop
    BY <2>1 DEF WriterLoop
  <2>2. CASE WriterWait
    BY <2>2 DEF WriterWait
  <2>3. CASE WriterTimedOut
    BY <2>3 DEF WriterTimedOut
  <2>4. CASE ResetAvailable
    BY <2>4 DEF ResetAvailable
  <2>5. CASE GetPacket
    BY <2>5 DEF GetPacket
  <2>6. CASE StartTransfer
    BY <2>6 DEF StartTransfer
  <2>7. CASE Transfer
    BY <2>7 DEF Transfer
  <2>8. CASE SignalWritten
    BY <2>8 DEF SignalWritten
  <2>9. CASE WriterExit
    BY <2>9 DEF WriterExit
  <2>10. QED
    BY <1>2, <2>1, <2>2, <2>3, <2>4, <2>5, <2>6, <2>7, <2>8, <2>9 DEF Writer
<1>3. CASE Central
  <2>1. CASE AttachInit
    BY <2>1 DEF AttachInit
  <2>2. CASE AttachResetEvents
    BY <2>2 DEF AttachResetEvents
  <2>3. CASE AttachStartWriter
    BY <2>3 DEF AttachStartWriter
  <2>4. CASE DetachStop
    BY <2>4 DEF DetachStop
  <2>5. CASE DetachWakeWriter
    BY <2>5 DEF DetachWakeWriter
  <2>6. CASE DetachClearAttached
    BY <2>6 DEF DetachClearAttached
  <2>7. CASE DetachCloseHandle
    BY <2>7 DEF DetachCloseHandle
  <2>8. CASE DetachJoinWriter
    BY <2>8 DEF DetachJoinWriter
  <2>9. QED
    BY <1>3, <2>1, <2>2, <2>3, <2>4, <2>5, <2>6, <2>7, <2>8 DEF Central
<1>4. CASE Close
  <2>1. CASE CloseUnregister
    BY <2>1 DEF CloseUnregister
  <2>2. CASE CloseStop
    BY <2>2 DEF CloseStop
  <2>3. CASE CloseJoinWriter
    BY <2>3 DEF CloseJoinWriter
  <2>4. CASE CloseClearAttached
    BY <2>4 DEF CloseClearAttached
  <2>5. CASE CloseCloseHandle
    BY <2>5 DEF CloseCloseHandle
  <2>6. CASE CloseReturn
    BY <2>6 DEF CloseReturn
  <2>7. QED
    BY <1>4, <2>1, <2>2, <2>3, <2>4, <2>5, <2>6 DEF Close
<1>5. CASE Reopen \/ Unplug \/ Replug
  BY <1>5 DEF Reopen, Unplug, Replug
<1>6. CASE UNCHANGED vars
  BY <1>6 DEF vars
<1>7. QED
  BY <1>1, <1>2, <1>3, <1>4, <1>5, <1>6 DEF Next

\* The write thread holds a packet only inside CPhidget_write.
LEMMA BufferStep ==
  ASSUME TypeOK, WriterLife, BufferEmpty, [Next]_vars
  PROVE  BufferEmpty'
<1> USE DEF BufferEmpty
<1> USE DEF notSetter, notWriter, notCentral, notClose, userVars, callVars, writerVars,
             deviceVars, handleVars, centralVars, eventVars
<1>1. ASSUME NEW s \in Setters, Setter(s) PROVE BufferEmpty'
  BY <1>1 DEF Setter, SetCall, LockAndAssign, TestAttached, StorePacket,
              QueueFull, AwaitWritten, SignalWriter, UnlockAndReturn
<1>2. CASE Writer
  <2>1. CASE WriterLoop
    BY <2>1 DEF WriterLoop
  <2>2. CASE WriterWait
    BY <2>2 DEF WriterWait
  <2>3. CASE WriterTimedOut
    BY <2>3 DEF WriterTimedOut
  <2>4. CASE ResetAvailable
    BY <2>4 DEF ResetAvailable
  <2>5. CASE GetPacket
    BY <2>5 DEF GetPacket
  <2>6. CASE StartTransfer
    BY <2>6 DEF StartTransfer
  <2>7. CASE Transfer
    BY <2>7 DEF Transfer
  <2>8. CASE SignalWritten
    BY <2>8 DEF SignalWritten
  <2>9. CASE WriterExit
    BY <2>9 DEF WriterExit
  <2>10. QED
    BY <1>2, <2>1, <2>2, <2>3, <2>4, <2>5, <2>6, <2>7, <2>8, <2>9 DEF Writer
<1>3. CASE Central
  <2>1. CASE AttachStartWriter
    BY <2>1 DEF AttachStartWriter, WriterLife
  <2>2. CASE AttachInit \/ AttachResetEvents \/ DetachStop \/ DetachWakeWriter
             \/ DetachClearAttached \/ DetachCloseHandle \/ DetachJoinWriter
    BY <2>2 DEF AttachInit, AttachResetEvents, DetachStop, DetachWakeWriter,
                DetachClearAttached, DetachCloseHandle, DetachJoinWriter
  <2>3. QED
    BY <1>3, <2>1, <2>2 DEF Central
<1>4. CASE Close
  BY <1>4 DEF Close, CloseUnregister, CloseStop, CloseJoinWriter,
              CloseClearAttached, CloseCloseHandle, CloseReturn
<1>5. CASE Reopen \/ Unplug \/ Replug
  BY <1>5 DEF Reopen, Unplug, Replug
<1>6. CASE UNCHANGED vars
  BY <1>6 DEF vars
<1>7. QED
  BY <1>1, <1>2, <1>3, <1>4, <1>5, <1>6 DEF Next

\* Order: what the setters number, the device receives in that order.
Order == Numbering /\ WireInOrder

\* A setter's step keeps the order: a packet enters the queue newer than
\* everything before it.
LEMMA SetterOrder ==
  ASSUME TypeOK, LockDiscipline, Order, NEW s \in Setters, Setter(s)
  PROVE  Order'
<1> USE DEF Order, Numbering, WireInOrder, Fresh, BeforeStore
<1> USE DEF TypeOK, SetterTypes, QueueTypes, Packets, Labels, goto
<1>0. UNCHANGED <<writerBuf, wire>>
  BY DEF Setter, SetCall, LockAndAssign, TestAttached, StorePacket, QueueFull,
         AwaitWritten, SignalWriter, UnlockAndReturn, notSetter, writerVars
<1>1. CASE SetCall(s)
  BY <1>0, <1>1 DEF SetCall
<1>2. CASE LockAndAssign(s)
  <2>1. \A t \in Setters : setterPc[t] \notin BeforeStore \cup {"signal", "unlock"}
    BY <1>2, SettersAssumption DEF LockAndAssign, LockDiscipline
  <2>2. property' = property + 1 /\ newVal'[s] = property'
    BY <1>2 DEF LockAndAssign
  <2>3. Numbering'
    BY <1>0, <1>2, <2>1, <2>2 DEF LockAndAssign
  <2>4. QED
    BY <1>0, <1>2, <2>3 DEF LockAndAssign
<1>3. CASE TestAttached(s)
  BY <1>0, <1>3 DEF TestAttached
<1>4. CASE StorePacket(s)
  <2>1. \A t \in Setters \ {s} : setterPc[t] \notin BeforeStore \cup {"signal", "unlock"}
    BY <1>4, SettersAssumption DEF StorePacket, LockDiscipline
  <2>2. /\ outputPacket' = newVal[s] /\ property' = property
        /\ newVal[s] <= property /\ Fresh(newVal[s])
    BY <1>4 DEF StorePacket
  <2>3. UNCHANGED <<newVal, setterRet>>
    BY <1>4 DEF StorePacket
  <2>4. setterPc' = [setterPc EXCEPT ![s] = "signal"]
    BY <1>4 DEF StorePacket
  <2>5. Fresh(property + 1)'
    BY <1>0, <2>2, <2>3
  <2>6. Numbering'
    BY <1>0, <2>1, <2>2, <2>3, <2>4, <2>5
  <2>7. WireInOrder'
    BY <1>0, <2>2
  <2>8. QED
    BY <2>6, <2>7
<1>5. CASE QueueFull(s)
  BY <1>0, <1>5 DEF QueueFull
<1>6. CASE AwaitWritten(s)
  BY <1>0, <1>6 DEF AwaitWritten
<1>7. CASE SignalWriter(s)
  BY <1>0, <1>7 DEF SignalWriter
<1>8. CASE UnlockAndReturn(s)
  <2>1. \A t \in Setters \ {s} : setterPc[t] \notin BeforeStore \cup {"signal", "unlock"}
    BY <1>8, SettersAssumption DEF UnlockAndReturn, LockDiscipline
  <2>2. UNCHANGED <<property, newVal, setterRet, outputPacket>>
    BY <1>8 DEF UnlockAndReturn
  <2>3. \A t \in Setters : setterPc'[t] \notin BeforeStore \cup {"signal", "unlock"}
    BY <1>8, <2>1 DEF UnlockAndReturn
  <2>4. Numbering'
    BY <1>0, <2>2, <2>3
  <2>5. WireInOrder'
    BY <1>0, <2>2
  <2>6. QED
    BY <2>4, <2>5
<1>9. QED
  BY <1>1, <1>2, <1>3, <1>4, <1>5, <1>6, <1>7, <1>8 DEF Setter

\* A step of the write thread keeps it: a packet moves from the queue to the
\* buffer and from the buffer to the device, or is lost.
LEMMA WriterOrder ==
  ASSUME TypeOK, Order, Writer
  PROVE  Order'
<1> USE DEF Order, Numbering, WireInOrder, Fresh
<1> USE DEF TypeOK, SetterTypes, QueueTypes, Packets, notWriter, userVars, callVars
<1>1. CASE GetPacket
  BY <1>1, PacketAssumption DEF GetPacket
<1>2. CASE Transfer
  <2>1. UNCHANGED <<outputPacket, userVars>> /\ writerBuf' = NoPacket
    BY <1>2 DEF Transfer
  <2>2. CASE wire' = wire
    BY <2>1, <2>2, PacketAssumption
  <2>3. CASE wire' = Append(wire, writerBuf) /\ writerBuf # NoPacket
    <3>1. /\ Len(wire') = Len(wire) + 1
          /\ \A i \in 1 .. Len(wire) : wire'[i] = wire[i]
          /\ wire'[Len(wire) + 1] = writerBuf
      BY <2>3
    <3>2. WireInOrder'
      BY <2>1, <2>3, <3>1, SMTT(30)
    <3>3. Numbering'
      BY <2>1, <2>3, <3>1, SMTT(30)
    <3>4. QED
      BY <3>2, <3>3
  <2>4. QED
    BY <1>2, <2>2, <2>3 DEF Transfer
<1>3. CASE SignalWritten
  BY <1>3, PacketAssumption DEF SignalWritten
<1>4. CASE WriterLoop \/ WriterWait \/ WriterTimedOut \/ ResetAvailable
           \/ StartTransfer \/ WriterExit
  BY <1>4 DEF WriterLoop, WriterWait, WriterTimedOut, ResetAvailable,
              StartTransfer, WriterExit
<1>5. QED
  BY <1>1, <1>2, <1>3, <1>4 DEF Writer

\* The order of the numbers is transitive.
LEMMA StillLess ==
  ASSUME NEW q \in Nat, NEW m \in Nat, NEW n \in Nat, q < m + 1, m + 1 <= n + 1
  PROVE  q < n + 1
  OBVIOUS

\* The other steps only ever empty the queue and renew the properties.
LEMMA OtherOrder ==
  ASSUME TypeOK, Order,
         Central \/ Close \/ Reopen \/ Unplug \/ Replug \/ UNCHANGED vars
  PROVE  Order'
<1> USE DEF userVars
<1>1. /\ UNCHANGED <<callVars, wire, writerBuf>>
      /\ property' \in {property, property + 1}
  <2>1. CASE Central
    BY <2>1 DEF Central, AttachInit, AttachResetEvents, AttachStartWriter,
       DetachStop, DetachWakeWriter, DetachClearAttached, DetachCloseHandle,
       DetachJoinWriter, notCentral, writerVars
  <2>2. CASE Close
    BY <2>2 DEF Close, CloseUnregister, CloseStop, CloseJoinWriter,
       CloseClearAttached, CloseCloseHandle, CloseReturn, notClose, writerVars
  <2>3. CASE Reopen \/ Unplug \/ Replug
    BY <2>3 DEF Reopen, Unplug, Replug, notClose, notSetter, notWriter,
       notCentral, writerVars
  <2>4. CASE UNCHANGED vars
    BY <2>4 DEF vars, writerVars
  <2>5. QED
    BY <2>1, <2>2, <2>3, <2>4
<1>2. outputPacket' \in {outputPacket, NoPacket}
  <2>1. CASE Central
    BY <2>1 DEF Central, AttachInit, AttachResetEvents, AttachStartWriter,
       DetachStop, DetachWakeWriter, DetachClearAttached, DetachCloseHandle,
       DetachJoinWriter
  <2>2. CASE Close
    BY <2>2 DEF Close, CloseUnregister, CloseStop, CloseJoinWriter,
       CloseClearAttached, CloseCloseHandle, CloseReturn, notClose
  <2>3. CASE Reopen \/ Unplug \/ Replug
    BY <2>3 DEF Reopen, Unplug, Replug, notClose, notSetter, notWriter, notCentral
  <2>4. CASE UNCHANGED vars
    BY <2>4 DEF vars
  <2>5. QED
    BY <2>1, <2>2, <2>3, <2>4
<1>3. property \in Nat /\ UNCHANGED <<newVal, setterPc>>
  BY <1>1 DEF TypeOK, SetterTypes, callVars
<1>4. WireInOrder'
  BY <1>1, <1>2 DEF Order, WireInOrder
<1>5. Fresh(property + 1)'
  <2>1. /\ \A i \in 1 .. Len(wire) : wire[i] \in Nat /\ wire[i] < property + 1
        /\ \A q \in {writerBuf, outputPacket} \ {NoPacket} :
             q \in Nat /\ q < property + 1
    BY DEF Order, Numbering, Fresh, TypeOK, QueueTypes, Packets
  <2>2. property' \in Nat /\ property + 1 <= property' + 1
    <3>1. property' = property \/ property' = property + 1
      BY <1>1, Zenon
    <3>2. property \in Nat
      BY <1>3
    <3>3. QED
      BY <3>1, <3>2
  <2>3. wire' = wire /\ {writerBuf', outputPacket'} \ {NoPacket}
                         \subseteq {writerBuf, outputPacket} \ {NoPacket}
    BY <1>1, <1>2
  <2>4. property \in Nat
    BY <1>3
  <2>5. \A i \in 1 .. Len(wire') : wire'[i] < property' + 1
    <3>1. wire' = wire
      BY <2>3
    <3>2. ASSUME NEW i \in 1 .. Len(wire) PROVE wire[i] < property' + 1
      BY <2>1, <2>2, <2>4, <3>2, StillLess
    <3>3. QED
      BY <3>1, <3>2
  <2>6. ASSUME NEW q \in {writerBuf', outputPacket'} \ {NoPacket}
        PROVE  q < property' + 1
    <3>1. q \in Nat /\ q < property + 1
      BY <2>1, <2>3, <2>6
    <3>2. QED
      BY <2>2, <2>4, <3>1, StillLess
  <2>7. QED
    BY <2>5, <2>6 DEF Fresh
<1>6. ASSUME NEW s \in Setters, setterPc'[s] \in BeforeStore
      PROVE  newVal'[s] <= property' /\ Fresh(newVal[s])'
  BY <1>1, <1>2, <1>3, <1>6
  DEF Order, Numbering, Fresh, TypeOK, SetterTypes, BeforeStore
<1>7. QED
  BY <1>4, <1>5, <1>6 DEF Order, Numbering

\* IInv is inductive.
LEMMA Inductive == IInv /\ [Next]_vars => IInv'
<1> SUFFICES ASSUME IInv, [Next]_vars PROVE IInv'
  OBVIOUS
<1>1. TypeOK'
  BY TypeStep DEF IInv
<1>2. LockDiscipline'
  BY LockStep DEF IInv
<1>3. WriterLife' /\ BufferEmpty'
  BY WriterLifeStep, BufferStep DEF IInv
<1>4. Order'
  BY SetterOrder, WriterOrder, OtherOrder DEF IInv, Order, Next
<1>5. QED
  BY <1>1, <1>2, <1>3, <1>4 DEF IInv, Order

LEMMA InitInv == Init => IInv
<1> SUFFICES ASSUME Init PROVE IInv
  OBVIOUS
<1>1. TypeOK
  BY TypeInit
<1>2. Numbering /\ WireInOrder
  <2>1. Len(wire) = 0 /\ property = 0
    BY DEF Init
  <2>2. writerBuf = NoPacket /\ outputPacket = NoPacket
    BY DEF Init
  <2>3. \A s \in Setters : setterPc[s] = "idle"
    BY DEF Init
  <2>4. QED
    BY <2>1, <2>2, <2>3 DEF Numbering, WireInOrder, Fresh,
                            BeforeStore
<1>3. LockDiscipline
  BY SettersAssumption DEF Init, LockDiscipline, BeforeStore
<1>4. BufferEmpty
  BY DEF Init, BufferEmpty
<1>5. WriterLife
  BY HolderAssumption DEF Init, WriterLife, activeDevicesLockFree
<1>6. QED
  BY <1>1, <1>2, <1>3, <1>4, <1>5 DEF IInv

(***************************************************************************)
(* The theorems.                                                           *)
(***************************************************************************)

\* Each variable keeps its type: a lock is held by a setter or by nobody, a
\* packet is a number or none, the threads are where their code can be.
THEOREM TypeCorrect == Spec => []TypeOK
  BY TypeInit, TypeStep, PTL DEF Spec

\* The inductive invariant holds in every reachable state.
THEOREM Invariance == Spec => []IInv
  BY InitInv, Inductive, PTL DEF Spec

\* Whatever the interleaving of setters, write thread, attach, detach and
\* close, the device receives the values in the order in which the setters
\* assigned them, each at most once.
THEOREM OrderCorrect == Spec => []WireInOrder
<1>1. IInv => WireInOrder
  BY DEF IInv
<1>2. QED
  BY <1>1, Invariance, PTL

\* CPhidget_close never closes the USB handle under a transfer.
THEOREM CloseCorrect == Spec => []NoTransferWhileClosing
<1>1. IInv => NoTransferWhileClosing
  BY DEF IInv, WriterLife, NoTransferWhileClosing
<1>2. QED
  BY <1>1, Invariance, PTL

(***************************************************************************)
(* Refinement: the output path implements PacketChannel.                   *)
(***************************************************************************)

LEMMA Pair ==
  ASSUME NEW a, NEW b
  PROVE  <<a>> \o <<b>> = <<a, b>>
<1>1. <<a>> \in Seq({a, b}) /\ b \in {a, b}
  OBVIOUS
<1>2. Append(<<a>>, b) = <<a>> \o <<b>>
  BY <1>1, AppendIsConcat
<1>3. Append(<<a>>, b) = <<a, b>>
  <2>1. /\ Append(<<a>>, b) \in Seq({a, b}) /\ <<a, b>> \in Seq({a, b})
        /\ Len(Append(<<a>>, b)) = 2 /\ Len(<<a, b>>) = 2
    BY <1>1
  <2>2. /\ Append(<<a>>, b)[1] = a /\ Append(<<a>>, b)[2] = b
        /\ <<a, b>>[1] = a /\ <<a, b>>[2] = b
    OBVIOUS
  <2>3. \A i \in 1 .. 2 : Append(<<a>>, b)[i] = <<a, b>>[i]
    <3>1. \A i \in 1 .. 2 : i = 1 \/ i = 2
      OBVIOUS
    <3>2. QED
      BY <2>2, <3>1, Zenon
  <2>4. QED
    BY <2>1, <2>3, SeqEqual
<1>4. QED
  BY <1>2, <1>3, Zenon

\* The four shapes of the channel.
LEMMA ChannelShape ==
  /\ writerBuf = NoPacket /\ outputPacket = NoPacket => inChannel = <<>>
  /\ writerBuf = NoPacket /\ outputPacket # NoPacket
     => inChannel = <<outputPacket>>
  /\ writerBuf # NoPacket /\ outputPacket = NoPacket => inChannel = <<writerBuf>>
  /\ writerBuf # NoPacket /\ outputPacket # NoPacket
     => inChannel = <<writerBuf, outputPacket>>
<1>1. asSeq(writerBuf) = IF writerBuf = NoPacket THEN <<>> ELSE <<writerBuf>>
  BY DEF asSeq
<1>2. asSeq(outputPacket)
      = IF outputPacket = NoPacket THEN <<>> ELSE <<outputPacket>>
  BY DEF asSeq
<1>3. <<writerBuf>> \o <<outputPacket>> = <<writerBuf, outputPacket>>
  BY Pair
<1>4. CASE writerBuf # NoPacket /\ outputPacket # NoPacket
  BY <1>1, <1>2, <1>3, <1>4, Zenon DEF inChannel
<1>5. CASE writerBuf = NoPacket /\ outputPacket = NoPacket
  BY <1>5 DEF inChannel, asSeq
<1>6. CASE writerBuf = NoPacket /\ outputPacket # NoPacket
  BY <1>6 DEF inChannel, asSeq
<1>7. CASE writerBuf # NoPacket /\ outputPacket = NoPacket
  BY <1>7 DEF inChannel, asSeq
<1>8. QED
  BY <1>4, <1>5, <1>6, <1>7, Zenon

\* Whatever leaves both places and the device alone is a stutter.
LEMMA ChannelStutter ==
  ASSUME UNCHANGED <<writerBuf, outputPacket, wire>>
  PROVE  UNCHANGED Channel!cvars
  BY DEF Channel!cvars, inChannel, asSeq

\* A setter's store is an Accept.
LEMMA StoreAccepts ==
  ASSUME IInv, NEW s \in Setters, StorePacket(s)
  PROVE  Channel!Accept
<1>1. /\ outputPacket = NoPacket /\ outputPacket' = newVal[s]
      /\ Fresh(newVal[s]) /\ newVal[s] \in Nat
      /\ UNCHANGED <<writerBuf, wire>>
  BY DEF StorePacket, IInv, Numbering, BeforeStore, TypeOK, SetterTypes,
         notSetter, writerVars
<1>2. outputPacket' # NoPacket
  BY <1>1, PacketAssumption
<1>3. CASE writerBuf = NoPacket
  <2>1. inChannel = <<>> /\ inChannel' = <<newVal[s]>>
    BY <1>1, <1>2, <1>3 DEF inChannel, asSeq
  <2>2. inChannel' = Append(inChannel, newVal[s]) /\ inChannel'[1] = newVal[s]
    BY <2>1
  <2>3. Len(inChannel) = 0 /\ Len(inChannel') = 1
    BY <2>1
  <2>4. newVal[s] \in Channel!Elements(inChannel')
    BY <2>2, <2>3 DEF Channel!Elements
  <2>5. Channel!Newer(newVal[s], inChannel) /\ Channel!Newer(newVal[s], wire)
    BY <1>1, <2>3 DEF Channel!Newer, Fresh
  <2>6. QED
    BY <1>1, <2>2, <2>3, <2>4, <2>5 DEF Channel!Accept
<1>4. CASE writerBuf # NoPacket
  <2>1. inChannel = <<writerBuf>> /\ inChannel' = <<writerBuf, newVal[s]>>
    <3>1. <<writerBuf>> \o <<newVal[s]>> = <<writerBuf, newVal[s]>>
      BY Pair
    <3>2. inChannel' = <<writerBuf>> \o <<newVal[s]>>
      BY <1>1, <1>2, <1>4 DEF inChannel, asSeq
    <3>3. inChannel = <<writerBuf>>
      BY <1>1, <1>4, ChannelShape
    <3>4. QED
      BY <3>1, <3>2, <3>3
  <2>2. inChannel' = Append(inChannel, newVal[s]) /\ inChannel'[2] = newVal[s]
    BY <2>1
  <2>3. Len(inChannel) = 1 /\ Len(inChannel') = 2 /\ inChannel[1] = writerBuf
    BY <2>1
  <2>4. newVal[s] \in Channel!Elements(inChannel')
    BY <2>2, <2>3 DEF Channel!Elements
  <2>5. Channel!Newer(newVal[s], inChannel) /\ Channel!Newer(newVal[s], wire)
    BY <1>1, <1>4, <2>3 DEF Channel!Newer, Fresh
  <2>6. QED
    BY <1>1, <2>2, <2>3, <2>4, <2>5 DEF Channel!Accept
<1>5. QED
  BY <1>3, <1>4

\* Emptying one place without a delivery loses the oldest packet, provided the
\* place emptied is the oldest occupied one.
LEMMA EmptyingLoses ==
  ASSUME wire' = wire, writerBuf' = NoPacket,
         \/ outputPacket' = outputPacket
         \/ outputPacket' = NoPacket /\ writerBuf = NoPacket
  PROVE  Channel!Lose \/ UNCHANGED Channel!cvars
<1>1. CASE UNCHANGED <<writerBuf, outputPacket>>
  BY <1>1, ChannelStutter
<1>2. CASE outputPacket' = outputPacket /\ writerBuf # NoPacket
  <2>1. inChannel # <<>> /\ inChannel' = Tail(inChannel)
    <3>1. CASE outputPacket = NoPacket
      BY <1>2, <3>1 DEF inChannel, asSeq
    <3>2. CASE outputPacket # NoPacket
      <4>1. inChannel = <<writerBuf, outputPacket>>
        BY <1>2, <3>2, ChannelShape
      <4>2. inChannel' = <<outputPacket>>
        BY <1>2, <3>2 DEF inChannel, asSeq
      <4>3. QED
        BY <4>1, <4>2
    <3>3. QED
      BY <3>1, <3>2
  <2>2. QED
    BY <2>1 DEF Channel!Lose
<1>3. CASE outputPacket' = NoPacket /\ outputPacket # NoPacket /\ writerBuf = NoPacket
  <2>1. inChannel = <<outputPacket>>
    BY <1>3, ChannelShape
  <2>2. inChannel' = <<>>
    BY <1>3 DEF inChannel, asSeq
  <2>3. QED
    BY <2>1, <2>2 DEF Channel!Lose
<1>4. QED
  BY <1>1, <1>2, <1>3

\* A step of the write thread delivers, loses or moves the oldest packet.
LEMMA WriterChannel ==
  ASSUME IInv, Writer
  PROVE  Channel!ChannelNext \/ UNCHANGED Channel!cvars
<1>1. CASE GetPacket
  <2>1. /\ writerBuf = NoPacket /\ outputPacket' = NoPacket
        /\ writerBuf' = outputPacket /\ wire' = wire
    BY <1>1 DEF GetPacket, IInv, BufferEmpty
  <2>2. inChannel' = inChannel
    BY <2>1 DEF inChannel, asSeq
  <2>3. QED
    BY <2>1, <2>2 DEF Channel!cvars
<1>2. CASE Transfer
  <2>1. writerBuf' = NoPacket /\ outputPacket' = outputPacket
    BY <1>2 DEF Transfer
  <2>2. CASE wire' = wire
    BY <2>1, <2>2, EmptyingLoses DEF Channel!ChannelNext
  <2>3. CASE wire' = Append(wire, writerBuf) /\ writerBuf # NoPacket
    <3>1. /\ inChannel # <<>> /\ inChannel' = Tail(inChannel)
          /\ Head(inChannel) = writerBuf
      <4>1. CASE outputPacket = NoPacket
        BY <2>1, <2>3, <4>1 DEF inChannel, asSeq
      <4>2. CASE outputPacket # NoPacket
        <5>1. inChannel = <<writerBuf, outputPacket>>
          BY <2>3, <4>2, ChannelShape
        <5>2. inChannel' = <<outputPacket>>
          BY <2>1, <4>2 DEF inChannel, asSeq
        <5>3. QED
          BY <5>1, <5>2
      <4>3. QED
        BY <4>1, <4>2
    <3>2. QED
      BY <2>3, <3>1 DEF Channel!ChannelNext, Channel!Deliver
  <2>4. QED
    BY <1>2, <2>2, <2>3 DEF Transfer
<1>3. CASE SignalWritten
  <2>1. wire' = wire /\ writerBuf' = NoPacket /\ outputPacket' = outputPacket
    BY <1>3 DEF SignalWritten
  <2>2. QED
    BY <2>1, EmptyingLoses DEF Channel!ChannelNext
<1>4. CASE WriterLoop \/ WriterWait \/ WriterTimedOut \/ ResetAvailable
           \/ StartTransfer \/ WriterExit
  BY <1>4, ChannelStutter DEF WriterLoop, WriterWait, WriterTimedOut,
     ResetAvailable, StartTransfer, WriterExit
<1>5. QED
  BY <1>1, <1>2, <1>3, <1>4 DEF Writer

\* Of the central thread's steps only initAfterOpen touches the channel; the
\* write thread is gone by then, so it loses the one packet left.
LEMMA CentralChannel ==
  ASSUME IInv, Central
  PROVE  Channel!ChannelNext \/ UNCHANGED Channel!cvars
<1>1. CASE AttachInit
  <2>1. writerPc = "none"
    BY <1>1 DEF AttachInit, IInv, WriterLife
  <2>2. writerBuf = NoPacket
    BY <2>1 DEF IInv, BufferEmpty
  <2>3. UNCHANGED <<wire, writerBuf>> /\ outputPacket' = NoPacket
    BY <1>1 DEF AttachInit, writerVars
  <2>4. QED
    BY <2>2, <2>3, EmptyingLoses DEF Channel!ChannelNext
<1>2. CASE AttachResetEvents \/ AttachStartWriter \/ DetachStop
           \/ DetachWakeWriter \/ DetachClearAttached \/ DetachCloseHandle
           \/ DetachJoinWriter
  BY <1>2, ChannelStutter DEF AttachResetEvents, AttachStartWriter, DetachStop,
     DetachWakeWriter, DetachClearAttached, DetachCloseHandle,
     DetachJoinWriter, writerVars
<1>3. QED
  BY <1>1, <1>2 DEF Central

LEMMA StepRefines ==
  IInv /\ [Next]_vars => [Channel!ChannelNext]_(Channel!cvars)
<1> SUFFICES ASSUME IInv, [Next]_vars
             PROVE  Channel!ChannelNext \/ UNCHANGED Channel!cvars
  OBVIOUS
<1>1. ASSUME NEW s \in Setters, Setter(s)
      PROVE  Channel!ChannelNext \/ UNCHANGED Channel!cvars
  <2>1. CASE StorePacket(s)
    BY <2>1, StoreAccepts DEF Channel!ChannelNext
  <2>2. CASE ~StorePacket(s)
    BY <1>1, <2>2, ChannelStutter DEF Setter, SetCall, LockAndAssign,
       TestAttached, QueueFull, AwaitWritten, SignalWriter, UnlockAndReturn,
       notSetter, writerVars
  <2>3. QED
    BY <2>1, <2>2
<1>2. CASE Writer
  BY <1>2, WriterChannel
<1>3. CASE Central
  BY <1>3, CentralChannel
<1>4. CASE Close
  BY <1>4, ChannelStutter DEF Close, CloseUnregister, CloseStop,
     CloseJoinWriter, CloseClearAttached, CloseCloseHandle, CloseReturn,
     notClose, writerVars
<1>5. CASE Reopen \/ Unplug \/ Replug
  BY <1>5, ChannelStutter DEF Reopen, Unplug, Replug, notClose, notSetter,
     notWriter, notCentral, writerVars
<1>6. CASE UNCHANGED vars
  BY <1>6, ChannelStutter DEF vars, writerVars
<1>7. QED
  BY <1>1, <1>2, <1>3, <1>4, <1>5, <1>6 DEF Next

\* The output path of a handle implements an in-order, at-most-once channel of
\* two places.
THEOREM Refinement == Spec => ImplementsChannel
<1>1. Init => Channel!ChannelInit
  BY DEF Init, Channel!ChannelInit, inChannel, asSeq
<1>2. QED
  BY <1>1, StepRefines, Invariance, PTL
  DEF Spec, ImplementsChannel, Channel!ChannelSpec

(***************************************************************************)
(* Wake-ups and convergence.                                               *)
(***************************************************************************)

\* A setter's last ATTACHED test was in this session or before; while the device
\* is being attached, before, so that a packet stored by then is a stale one.
Sessions ==
  /\ \A s \in Setters : checkedIn[s] <= session
  /\ status = "attaching" => /\ \A s \in Setters : checkedIn[s] < session
                             /\ outputPacket # NoPacket => staleSender
  /\ session = 0 => status = "detached"

LEMMA SessionsStep ==
  ASSUME IInv, Sessions, [Next]_vars
  PROVE  Sessions'
<1> USE DEF Sessions, IInv, TypeOK, SetterTypes, HandleTypes
<1>1. CASE \E s \in Setters : Setter(s)
  <2>1. PICK s \in Setters : Setter(s)
    BY <1>1
  <2>2. UNCHANGED <<status, session>> /\ (staleSender => staleSender')
    BY <2>1 DEF Setter, SetCall, LockAndAssign, TestAttached, StorePacket, QueueFull,
       AwaitWritten, SignalWriter, UnlockAndReturn, notSetter, deviceVars, centralVars
  <2>3. CASE TestAttached(s)
    BY <2>2, <2>3 DEF TestAttached
  <2>4. CASE StorePacket(s)
    <3>1. checkedIn[s] # session => staleSender'
      BY <2>4, Zenon DEF StorePacket
    <3>2. UNCHANGED checkedIn
      BY <2>4 DEF StorePacket
    <3> QED
      BY <2>2, <3>1, <3>2
  <2>5. CASE SetCall(s) \/ LockAndAssign(s) \/ QueueFull(s) \/ AwaitWritten(s)
             \/ SignalWriter(s) \/ UnlockAndReturn(s)
    <3>1. UNCHANGED <<checkedIn, outputPacket>>
      BY <2>5 DEF SetCall, LockAndAssign, QueueFull, AwaitWritten, SignalWriter,
         UnlockAndReturn
    <3> QED
      BY <2>2, <3>1
  <2> QED
    BY <2>1, <2>3, <2>4, <2>5 DEF Setter
<1>2. CASE Writer
  <2>1. /\ UNCHANGED <<status, session, checkedIn, staleSender>>
        /\ outputPacket' \in {outputPacket, NoPacket}
    BY <1>2 DEF Writer, WriterLoop, WriterWait, WriterTimedOut, ResetAvailable, GetPacket,
       StartTransfer, Transfer, SignalWritten, WriterExit, notWriter, userVars, callVars, centralVars
  <2> QED
    BY <2>1
<1>3. CASE AttachInit
  BY <1>3 DEF AttachInit, notCentral, userVars, callVars
<1>4. CASE Central /\ ~AttachInit
  <2>1. /\ UNCHANGED <<session, checkedIn, staleSender, outputPacket>>
        /\ status' # "attaching" \/ UNCHANGED status
    BY <1>4 DEF Central, AttachResetEvents, AttachStartWriter, DetachStop, DetachWakeWriter,
       DetachClearAttached, DetachCloseHandle, DetachJoinWriter, notCentral, userVars, callVars
  <2>2. status' = "attached" => status # "detached"
    BY <1>4 DEF Central, AttachResetEvents, AttachStartWriter, DetachStop, DetachWakeWriter,
       DetachClearAttached, DetachCloseHandle, DetachJoinWriter, WriterLife
  <2>3. status' \in {"detached", "attaching", "attached"}
    BY TypeStep
  <2> QED
    BY <2>1, <2>2, <2>3
<1>5. CASE Close
  <2>1. /\ UNCHANGED <<session, checkedIn, staleSender, outputPacket>>
        /\ status' \in {status, "detached"}
    BY <1>5 DEF Close, CloseUnregister, CloseStop, CloseJoinWriter, CloseClearAttached,
       CloseCloseHandle, CloseReturn, notClose, userVars, callVars, centralVars
  <2> QED
    BY <2>1
<1>6. CASE Reopen \/ Unplug \/ Replug \/ UNCHANGED vars
  <2>1. UNCHANGED <<session, checkedIn, staleSender, outputPacket, status>>
    BY <1>6 DEF Reopen, Unplug, Replug, vars, notClose, userVars, callVars, centralVars, deviceVars
  <2> QED
    BY <2>1
<1> QED
  BY <1>1, <1>2, <1>3, <1>4, <1>5, <1>6 DEF Next

LEMMA WakeStep ==
  ASSUME IInv, Sessions, NoLostWakeup, [Next]_vars
  PROVE  NoLostWakeup'
<1> USE DEF NoLostWakeup
<1>1. ASSUME NEW s \in Setters, Setter(s)
      PROVE  NoLostWakeup'
  <2>1. UNCHANGED writerPc /\ (staleSender => staleSender') /\ setterPc \in [Setters -> Labels]
    BY <1>1 DEF Setter, SetCall, LockAndAssign, TestAttached, StorePacket, QueueFull,
       AwaitWritten, SignalWriter, UnlockAndReturn, notSetter, writerVars, IInv, TypeOK,
       SetterTypes
  <2>2. CASE StorePacket(s)
    BY <2>1, <2>2 DEF StorePacket, goto
  <2>3. CASE SignalWriter(s)
    BY <2>3 DEF SignalWriter
  <2>4. CASE SetCall(s) \/ LockAndAssign(s) \/ TestAttached(s) \/ QueueFull(s)
             \/ AwaitWritten(s) \/ UnlockAndReturn(s)
    <3>1. /\ setterPc[s] # "signal" /\ UNCHANGED <<outputPacket, writeAvailable>>
          /\ \A t \in Setters : t # s => setterPc'[t] = setterPc[t]
      BY <2>1, <2>4 DEF SetCall, LockAndAssign, TestAttached, QueueFull, AwaitWritten,
         UnlockAndReturn, eventVars, goto
    <3> QED
      BY <2>1, <3>1
  <2> QED
    BY <1>1, <2>2, <2>3, <2>4 DEF Setter
<1>2. CASE GetPacket \/ ResetAvailable
  BY <1>2 DEF GetPacket, ResetAvailable
<1>3. CASE WriterLoop \/ WriterWait \/ WriterTimedOut \/ StartTransfer \/ Transfer
           \/ SignalWritten \/ WriterExit
  <2>1. /\ UNCHANGED <<outputPacket, staleSender, writeAvailable, setterPc>>
        /\ writerPc \in {"loop", "waiting", "timedOut", "send", "transfer", "signal"}
           \/ writerPc' = "none"
    BY <1>3 DEF WriterLoop, WriterWait, WriterTimedOut, StartTransfer, Transfer,
       SignalWritten, WriterExit, notWriter, userVars, callVars, eventVars
  <2> QED
    BY <2>1
<1>4. CASE AttachInit
  BY <1>4 DEF AttachInit
<1>5. CASE AttachResetEvents
  <2>1. writerPc = "none"
    BY <1>5 DEF AttachResetEvents, IInv, WriterLife
  <2> QED
    BY <1>5, <2>1 DEF AttachResetEvents, writerVars
<1>6. CASE AttachStartWriter
  <2>1. outputPacket # NoPacket => staleSender
    BY <1>6 DEF AttachStartWriter, IInv, WriterLife, Sessions
  <2> QED
    BY <1>6, <2>1 DEF AttachStartWriter, notCentral, userVars, callVars
<1>7. CASE DetachWakeWriter
  BY <1>7 DEF DetachWakeWriter
<1>8. CASE DetachStop \/ DetachClearAttached \/ DetachCloseHandle \/ DetachJoinWriter
  BY <1>8 DEF DetachStop, DetachClearAttached, DetachCloseHandle, DetachJoinWriter,
     notCentral, userVars, callVars, writerVars, eventVars
<1>9. CASE Close \/ Reopen
  BY <1>9 DEF Close, CloseUnregister, CloseStop, CloseJoinWriter, CloseClearAttached,
     CloseCloseHandle, CloseReturn, Reopen, notClose, userVars, callVars, writerVars, eventVars
<1>10. CASE Unplug \/ Replug \/ UNCHANGED vars
  BY <1>10 DEF Unplug, Replug, vars, userVars, callVars, writerVars, eventVars
<1> QED
  BY <1>1, <1>2, <1>3, <1>4, <1>5, <1>6, <1>7, <1>8, <1>9, <1>10 DEF Next, Writer, Central

\* A packet in the queue of a live write thread has a wake-up on its way, as
\* CPhidget_write resets the event before it empties the queue and the setter
\* sets it after it has filled it.
THEOREM WakeupCorrect == Spec => []NoLostWakeup
<1>1. Init => Sessions /\ NoLostWakeup
  BY DEF Init, Sessions, NoLostWakeup
<1>2. IInv /\ Sessions /\ NoLostWakeup /\ [Next]_vars => (Sessions /\ NoLostWakeup)'
  BY SessionsStep, WakeStep
<1> QED
  BY <1>1, <1>2, Invariance, PTL DEF Spec
\* The setter inside SENDPACKET made the newest packet of all; no two setters' last packets
\* are the same, and a setter that never made one has never tested ATTACHED.
Newest ==
  /\ \A s \in Setters :
       /\ setterPc[s] \in BeforeStore \cup {"signal", "unlock"} =>
            newVal[s] > 0 /\ \A t \in Setters \ {s} : newVal[t] < newVal[s]
       /\ newVal[s] <= property
       /\ newVal[s] = 0 => checkedIn[s] = 0
  /\ \A s, t \in Setters : s # t /\ newVal[s] = newVal[t] => newVal[s] = 0

\* The call of a setter has stored its packet, or the last call to return has.
Stored(s) ==
  \/ setterPc[s] = "signal"
  \/ setterPc[s] = "unlock" /\ setterRet[s] = "ok"
  \/ setterPc[s] \in {"idle", "lock"} /\ lastRet = "ok" /\ writelock = NoThread

\* The write thread runs, and its last transfer has not failed.
Alive ==
  /\ writerPc \notin {"exit", "none"}
  /\ writerPc = "signal" => writerRet = "ok"

\* The newest packet is in the queue, with the write thread, or the last that the
\* device has received.
InFlight ==
  \/ outputPacket = property
  \/ writerBuf = property
  \/ Len(wire) > 0 /\ wire[Len(wire)] = property

\* While the write thread lives, the newest packet, once stored in this session, is
\* in flight.
Delivering ==
  /\ writerPc = "signal" /\ writerRet = "ok" => writerBuf = NoPacket
  /\ \A s \in Setters :
       /\ newVal[s] = property /\ checkedIn[s] = session /\ session > 0 /\ ~staleSender
       /\ Stored(s) /\ Alive
       => InFlight

LEMMA NewestStep ==
  ASSUME IInv, Newest, [Next]_vars
  PROVE  Newest'
<1> USE DEF Newest, IInv, TypeOK, SetterTypes, LockDiscipline, BeforeStore, Labels, goto
<1>1. ASSUME NEW s \in Setters, LockAndAssign(s) PROVE Newest'
  <2>1. \A t \in Setters : setterPc[t] \notin {"again", "store", "waiting", "signal", "unlock"}
    BY <1>1, SettersAssumption DEF LockAndAssign
  <2>2. /\ property' = property + 1 /\ newVal'[s] = property + 1
        /\ \A t \in Setters : t # s => newVal'[t] = newVal[t] /\ setterPc'[t] = setterPc[t]
        /\ UNCHANGED checkedIn
    BY <1>1 DEF LockAndAssign
  <2> QED
    BY <2>1, <2>2
<1>2. ASSUME NEW s \in Setters, TestAttached(s) PROVE Newest'
  <2>1. /\ UNCHANGED <<property, newVal>>
        /\ \A t \in Setters : t # s => /\ checkedIn'[t] = checkedIn[t]
                                       /\ setterPc'[t] = setterPc[t]
        /\ newVal[s] > 0
        /\ setterPc[s] = "again"
    BY <1>2 DEF TestAttached
  <2>2. \A t \in Setters : newVal'[t] = 0 => checkedIn'[t] = 0
    BY <2>1
  <2>3. \A t \in Setters :
          setterPc'[t] \in {"again", "store", "waiting", "signal", "unlock"} =>
            setterPc[t] \in {"again", "store", "waiting", "signal", "unlock"}
    BY <2>1
  <2> QED
    BY <2>1, <2>2, <2>3
<1>3. ASSUME NEW s \in Setters,
             SetCall(s) \/ StorePacket(s) \/ QueueFull(s) \/ AwaitWritten(s)
             \/ SignalWriter(s) \/ UnlockAndReturn(s)
      PROVE  Newest'
  <2>1. /\ UNCHANGED <<property, newVal, checkedIn>>
        /\ \A t \in Setters : t # s => setterPc'[t] = setterPc[t]
        /\ setterPc'[s] \in {"again", "store", "waiting", "signal", "unlock"} =>
             setterPc[s] \in {"again", "store", "waiting", "signal", "unlock"}
    BY <1>3 DEF SetCall, StorePacket, QueueFull, AwaitWritten, SignalWriter, UnlockAndReturn
  <2> QED
    BY <2>1
<1>4. CASE UNCHANGED callVars /\ property' \in {property, property + 1}
  BY <1>4 DEF callVars
<1> QED
  BY <1>1, <1>2, <1>3, <1>4, OnlySettersLock DEF Setter

LEMMA SetterDelivers ==
  ASSUME IInv, Newest, Delivering, NEW s \in Setters, Setter(s)
  PROVE  Delivering'
<1> USE DEF IInv, TypeOK, SetterTypes, LockDiscipline, BeforeStore, Labels, goto
<1>1. UNCHANGED <<writerPc, writerRet, writerBuf, wire, session>>
  BY DEF Setter, SetCall, LockAndAssign, TestAttached, StorePacket, QueueFull, AwaitWritten,
     SignalWriter, UnlockAndReturn, notSetter, writerVars, centralVars
<1>2. writerPc = "signal" /\ writerRet = "ok" => writerBuf = NoPacket
  BY DEF Delivering
<1>3. \A t \in Setters : t # s =>
        newVal'[t] = newVal[t] /\ checkedIn'[t] = checkedIn[t] /\ setterPc'[t] = setterPc[t]
        /\ setterRet'[t] = setterRet[t]
  BY DEF Setter, SetCall, LockAndAssign, TestAttached, StorePacket, QueueFull, AwaitWritten,
     SignalWriter, UnlockAndReturn
<1> SUFFICES ASSUME NEW t \in Setters, newVal'[t] = property', checkedIn'[t] = session,
                    session > 0, ~staleSender', Stored(t)', Alive
             PROVE  InFlight'
  BY <1>1, <1>2 DEF Delivering, Alive
<1>4. newVal[t] = property /\ checkedIn[t] = session /\ ~staleSender /\ Stored(t) => InFlight
  BY DEF Delivering
<1>5. CASE SetCall(s)
  <2>1. UNCHANGED <<newVal, property, checkedIn, staleSender, setterRet, lastRet, writelock,
                    outputPacket>>
    BY <1>5 DEF SetCall
  <2>2. Stored(t)
    BY <1>3, <1>5, <2>1 DEF SetCall, Stored
  <2> QED
    BY <1>1, <1>4, <2>1, <2>2 DEF InFlight
<1>6. CASE LockAndAssign(s)
  <2>1. property' = property + 1 /\ setterPc'[s] = "again"
    BY <1>6 DEF LockAndAssign
  <2>2. t = s
    BY <1>3, <2>1 DEF Newest
  <2> QED
    BY <2>1, <2>2 DEF Stored
<1>7. CASE TestAttached(s) \/ QueueFull(s) \/ AwaitWritten(s)
  <2>1. UNCHANGED <<newVal, property, staleSender, lastRet, writelock, outputPacket>>
    BY <1>7 DEF TestAttached, QueueFull, AwaitWritten, eventVars
  <2>2. \/ setterPc'[s] \in {"again", "store", "waiting"}
        \/ setterPc'[s] = "unlock" /\ setterRet'[s] # "ok"
    BY <1>7 DEF TestAttached, QueueFull, AwaitWritten
  <2>3. t # s
    BY <2>2 DEF Stored
  <2>4. Stored(t)
    BY <1>3, <2>1, <2>3 DEF Stored
  <2> QED
    BY <1>1, <1>3, <1>4, <2>1, <2>3, <2>4 DEF InFlight
<1>8. CASE StorePacket(s)
  <2>1. outputPacket' = newVal[s] /\ UNCHANGED <<property, newVal>>
    BY <1>8 DEF StorePacket
  <2>2. t = s
    BY <1>8, <2>1 DEF StorePacket, Newest
  <2> QED
    BY <2>1, <2>2 DEF InFlight
<1>9. CASE SignalWriter(s) \/ UnlockAndReturn(s)
  <2>1. UNCHANGED <<newVal, property, checkedIn, outputPacket>> /\ (staleSender => staleSender')
    BY <1>9 DEF SignalWriter, UnlockAndReturn, eventVars
  <2>2. t = s
    BY <1>9, <2>1 DEF SignalWriter, UnlockAndReturn, Newest
  <2>3. Stored(s)
    BY <1>9, <2>2 DEF SignalWriter, UnlockAndReturn, Stored
  <2> QED
    BY <1>1, <1>4, <2>1, <2>2, <2>3 DEF InFlight
<1> QED
  BY <1>5, <1>6, <1>7, <1>8, <1>9 DEF Setter

LEMMA WriterDelivers ==
  ASSUME IInv, Delivering, Writer
  PROVE  Delivering'
<1> USE DEF IInv, TypeOK, SetterTypes, QueueTypes
<1>1. UNCHANGED <<userVars, session>>
  BY DEF Writer, WriterLoop, WriterWait, WriterTimedOut, ResetAvailable, GetPacket,
     StartTransfer, Transfer, SignalWritten, WriterExit, notWriter, centralVars
<1>2. (writerPc = "signal" /\ writerRet = "ok" => writerBuf = NoPacket)'
  BY DEF Writer, WriterLoop, WriterWait, WriterTimedOut, ResetAvailable, GetPacket,
     StartTransfer, Transfer, SignalWritten, WriterExit
<1>3. Alive' => Alive
  BY DEF Alive, Writer, WriterLoop, WriterWait, WriterTimedOut, ResetAvailable, GetPacket,
     StartTransfer, Transfer, SignalWritten, WriterExit
<1>4. property \in Packets /\ property # NoPacket
  BY PacketAssumption DEF Packets
<1>5. ASSUME InFlight, Alive, Alive'
      PROVE  InFlight'
  <2>1. UNCHANGED property
    BY <1>1 DEF userVars, callVars
  <2>2. CASE GetPacket
    <3>1. writerBuf = NoPacket
      BY <2>2 DEF GetPacket, BufferEmpty
    <3> QED
      BY <1>4, <1>5, <2>1, <2>2, <3>1 DEF GetPacket, InFlight
  <2>3. CASE Transfer
    <3>1. CASE wire' = wire /\ writerBuf = NoPacket
      BY <1>4, <1>5, <2>1, <2>3, <3>1 DEF Transfer, InFlight
    <3>2. CASE wire' = Append(wire, writerBuf) /\ writerBuf # NoPacket
      <4>1. writerBuf \in Nat /\ writerBuf <= property
        BY <3>2, <1>4 DEF Numbering, Fresh, Packets
      <4>2. Len(wire) > 0 => wire[Len(wire)] < writerBuf
        BY <3>2, SMTT(30) DEF WireInOrder
      <4>3. Len(wire') > 0 /\ wire'[Len(wire')] = writerBuf
        BY <3>2
      <4>4. UNCHANGED outputPacket
        BY <2>3 DEF Transfer
      <4>5. wire \in Seq(Nat)
        BY DEF Packets
      <4>6. Len(wire) > 0 => wire[Len(wire)] \in Nat
        BY <4>5
      <4> QED
        BY <1>4, <1>5, <2>1, <4>1, <4>2, <4>3, <4>4, <4>6 DEF InFlight, Packets
    <3> QED
      BY <1>5, <2>3, <3>1, <3>2 DEF Transfer, Alive
  <2>4. CASE SignalWritten
    <3>1. writerBuf = NoPacket
      BY <1>5, <2>4 DEF SignalWritten, Alive, Delivering
    <3> QED
      BY <1>4, <1>5, <2>1, <2>4, <3>1 DEF SignalWritten, InFlight
  <2>5. CASE WriterLoop \/ WriterWait \/ WriterTimedOut \/ ResetAvailable \/ StartTransfer
             \/ WriterExit
    <3>1. UNCHANGED <<outputPacket, writerBuf, wire>>
      BY <2>5 DEF WriterLoop, WriterWait, WriterTimedOut, ResetAvailable, StartTransfer,
         WriterExit
    <3> QED
      BY <1>5, <2>1, <3>1 DEF InFlight
  <2> QED
    BY <2>2, <2>3, <2>4, <2>5 DEF Writer
<1>6. \A s \in Setters : Stored(s)' => Stored(s)
  BY <1>1 DEF userVars, callVars, Stored
<1> QED
  BY <1>1, <1>2, <1>3, <1>5, <1>6 DEF Delivering, userVars, callVars

LEMMA OthersDeliver ==
  ASSUME IInv, Sessions, Delivering,
         Central \/ Close \/ Reopen \/ Unplug \/ Replug \/ UNCHANGED vars
  PROVE  Delivering'
<1> USE DEF IInv, TypeOK, SetterTypes, HandleTypes
<1>1. UNCHANGED <<callVars, writerBuf, writerRet, wire>>
  BY DEF userVars, Central, AttachInit, AttachResetEvents, AttachStartWriter, DetachStop,
     DetachWakeWriter, DetachClearAttached, DetachCloseHandle, DetachJoinWriter, notCentral,
     Close, CloseUnregister, CloseStop, CloseJoinWriter, CloseClearAttached,
     CloseCloseHandle, CloseReturn, Reopen, Unplug, Replug, notClose, vars, writerVars
<1>2. CASE AttachInit
  <2>1. session' = session + 1 /\ UNCHANGED writerPc
    BY <1>2 DEF AttachInit, writerVars
  <2>2. \A s \in Setters : checkedIn'[s] < session'
    BY <1>1, <2>1 DEF Sessions, userVars, callVars
  <2> QED
    BY <1>1, <2>1, <2>2 DEF Delivering
<1>3. CASE AttachStartWriter
  <2>1. UNCHANGED session /\ writerPc' = "loop" /\ status = "attaching"
    BY <1>3 DEF AttachStartWriter, WriterLife
  <2>2. \A s \in Setters : checkedIn'[s] < session'
    BY <1>1, <2>1 DEF Sessions, userVars, callVars
  <2> QED
    BY <2>1, <2>2 DEF Delivering
<1>4. CASE ~AttachInit /\ ~AttachStartWriter
  <2>1. UNCHANGED <<writerPc, outputPacket, session, property>>
    BY <1>4 DEF userVars, notCentral, Central, AttachResetEvents, DetachStop, DetachWakeWriter,
       DetachClearAttached, DetachCloseHandle, DetachJoinWriter, Close, CloseUnregister,
       CloseStop, CloseJoinWriter, CloseClearAttached, CloseCloseHandle, CloseReturn,
       Reopen, Unplug, Replug, notClose, vars, writerVars, centralVars
  <2> QED
    BY <1>1, <2>1 DEF Delivering, Stored, Alive, InFlight, userVars, callVars
<1> QED
  BY <1>2, <1>3, <1>4

\* Whenever the output path is quiet after a set call that succeeded in this
\* session, the device holds what the getters report: the newest packet is
\* in flight as long as the write thread lives, and then there is no other place.
THEOREM Convergence == Spec => []Converged
<1>1. Init => Sessions /\ Newest /\ Delivering
  <2> SUFFICES ASSUME Init PROVE Sessions /\ Newest /\ Delivering
    OBVIOUS
  <2>1. Sessions
    BY DEF Init, Sessions
  <2>2. Newest
    BY DEF Init, Newest, BeforeStore
  <2>3. Delivering
    BY DEF Init, Delivering
  <2> QED
    BY <2>1, <2>2, <2>3
<1>2. IInv /\ Sessions /\ Newest /\ Delivering /\ [Next]_vars
      => (Sessions /\ Newest /\ Delivering)'
  BY SessionsStep, NewestStep, SetterDelivers, WriterDelivers, OthersDeliver DEF Next
<1>3. IInv /\ Newest /\ Delivering /\ Sessions => Converged
  <2> SUFFICES ASSUME IInv, Newest, Delivering, Sessions, status = "attached",
                      writerPc = "waiting", outputPacket = NoPacket, lastRet = "ok",
                      ~staleSender, \A s \in Setters : setterPc[s] \in {"idle", "lock"},
                      NEW s \in Setters, newVal[s] = property, checkedIn[s] = session
               PROVE  Len(wire) > 0 /\ wire[Len(wire)] = property
    BY DEF Converged
  <2> USE DEF IInv, TypeOK, SetterTypes, HandleTypes
  <2>1. writelock = NoThread
    BY DEF LockDiscipline, BeforeStore
  <2>2. session > 0
    BY DEF Sessions
  <2>3. Stored(s) /\ Alive
    BY <2>1 DEF Stored, Alive
  <2>4. InFlight
    BY <2>2, <2>3 DEF Delivering
  <2>5. writerBuf = NoPacket /\ property # NoPacket
    BY PacketAssumption DEF BufferEmpty
  <2> QED
    BY <2>4, <2>5 DEF InFlight
<1> QED
  BY <1>1, <1>2, <1>3, Invariance, PTL DEF Spec
=============================================================================
