------------------------- MODULE InterfaceKitProofs -------------------------
(***************************************************************************)
(* Theorems about one handle of an interface kit, for any users, sensors,   *)
(* outputs, triggers, rates and scripts: what its handlers are told (IInv), *)
(* that the device gets what was set (CInv), and that values are shown with *)
(* the ratiometric mode they were measured in (MInv).  Little is assumed of *)
(* the values: the invariants hold the domains of the functions and records *)
(* that steps change, and a range only where a step computes with it.       *)
(***************************************************************************)
EXTENDS InterfaceKit, SequenceTheorems, WellFoundedInduction, TLAPS

USE SensorsAssumption

\* The places of the read thread while it tells the handler of sensors.
TellingPlaces == {"sensor", "storeSum", "loadCount", "storeCount"}

\* The domains of what is updated in place.
Shapes ==
  /\ DOMAIN reader = {"pc", "packet", "last", "todo", "loaded", "perEvent"}
  /\ DOMAIN told = {"outputs", "sensors"} /\ DOMAIN told.sensors = Sensors
  /\ DOMAIN sensorLastValue = Sensors /\ DOMAIN sensorChangeTrigger = Sensors
  /\ DOMAIN user = Users
  /\ \A u \in Users : DOMAIN user[u] = {"pc", "op", "index", "value"}
  /\ judged \subseteq Sensors

\* The threads start one after the other, and the setters of a device that echoes
\* do not call the handler.
Starting ==
  /\ central \in {"init", "events"} => reader.pc = "none"
  /\ central = "init" => \A i \in Sensors : told.sensors[i] = Unknown
  /\ central = "init" <=> status = "attaching"
  /\ \A u \in Users : user[u].op # "fire" /\ (user[u].pc = "fire" => ~fullStateEcho)

\* While a packet is handled the handler has been told what the outputs were when
\* it came in.
Echoes ==
  status = "attached" /\ fullStateEcho =>
    /\ reader.pc = "read" => \A o \in Outputs : outputsTold[o]
    /\ reader.pc \notin {"none", "read"} =>
         \A o \in Outputs : Known(reader.last[o]) => told.outputs[o] = reader.last[o]

\* sensorLastValue is what the handler was told; a sensor that is still to be told
\* of is not judged.
Judging ==
  /\ status = "attached" => \A i \in Sensors :
       /\ Known(told.sensors[i]) => told.sensors[i] = sensorLastValue[i]
       /\ i \in judged /\ Known(sensorValue[i]) /\ Known(told.sensors[i]) =>
            \/ sensorValue[i] = told.sensors[i]
            \/ ~Telling(told.sensors[i], sensorValue[i], sensorChangeTrigger[i])
  /\ reader.pc \in TellingPlaces => reader.todo \subseteq Sensors \ judged
  /\ reader.pc \in TellingPlaces \ {"sensor"} => reader.todo # {}
  /\ reader.pc = "events" /\ ratiometricSwitching = 0 =>
       \A i \in Sensors : reader.packet.samples[i] # <<>> => i \notin judged

IInv == Shapes /\ Starting /\ Echoes /\ Judging

LEMMA Begins == Init => IInv
<1> SUFFICES ASSUME Init PROVE IInv
  OBVIOUS
<1>1. Shapes
  BY DEF Init, Shapes, noReader, idle
<1>2. Starting
  BY DEF Init, Starting, noReader, idle
<1>3. Echoes /\ Judging
  BY DEF Init, Echoes, Judging, noReader, TellingPlaces
<1> QED
  BY <1>1, <1>2, <1>3 DEF IInv

\* current is one of the sensors left to do.
LEMMA CurrentLeft ==
  ASSUME reader.todo \subseteq Sensors, reader.todo # {}
  PROVE  current \in reader.todo
<1>1. PICK x \in reader.todo : \A y \in reader.todo : ~(<<y, x>> \in OpToRel(<, Nat))
  BY NatLessThanWellFounded, WFMin
<1>2. ASSUME NEW y \in reader.todo
      PROVE  x =< y
  <2>1. x \in Nat /\ y \in Nat
    OBVIOUS
  <2>2. y < x => <<y, x>> \in OpToRel(<, Nat)
    BY <2>1 DEF OpToRel
  <2>3. ~(<<y, x>> \in OpToRel(<, Nat))
    BY <1>1, Zenon
  <2>4. ~(y < x)
    BY <2>2, <2>3
  <2> QED
    BY <2>1, <2>4
<1> QED
  BY <1>2 DEF current, Min

-----------------------------------------------------------------------------
LEMMA CentralKeeps ==
  ASSUME IInv, InitAfterOpen \/ EventsAfterOpen \/ Detach
  PROVE  IInv'
<1> USE DEF IInv, Shapes, Starting
<1>1. CASE InitAfterOpen
  <2>1. UNCHANGED <<fullStateEcho, ratiometricSwitching, sensorChangeTrigger, reader, user,
                    told, judged>> /\ central = "init" /\ central' = "events"
                    /\ status' = "attached"
    BY <1>1 DEF InitAfterOpen, fixed
  <2>2. DOMAIN sensorLastValue' = Sensors
    BY <1>1 DEF InitAfterOpen, sensorVars
  <2>3. reader.pc = "none" /\ \A i \in Sensors : told.sensors[i] = Unknown
    BY <2>1
  <2> QED
    BY <2>1, <2>2, <2>3 DEF Echoes, Judging, TellingPlaces, Known
<1>2. CASE EventsAfterOpen
  <2>1. /\ UNCHANGED <<status, fullStateEcho, ratiometricSwitching, sensorValue,
                       sensorLastValue, sensorChangeTrigger, user, judged,
                       outputEchoStates>>
        /\ central = "events" /\ central' = "done"
        /\ reader' = [reader EXCEPT !.pc = "read"]
        /\ told' = IF status = "attached" THEN [told EXCEPT !.outputs = outputEchoStates]
                                          ELSE told
    BY <1>2 DEF EventsAfterOpen, fixed, echoVars, sensorVars
  <2>2. /\ DOMAIN told' = {"outputs", "sensors"} /\ told'.sensors = told.sensors
        /\ status = "attached" => told'.outputs = outputEchoStates
    BY <2>1
  <2>3. Shapes' /\ Starting'
    BY <2>1, <2>2
  <2>4. Echoes'
    BY <2>1, <2>2 DEF Echoes, outputsTold
  <2>5. Judging'
    BY <2>1, <2>2 DEF Judging, TellingPlaces
  <2> QED
    BY <2>3, <2>4, <2>5
<1>3. CASE Detach
  <2>1. UNCHANGED <<fullStateEcho, ratiometricSwitching, sensorValue, sensorLastValue,
                    sensorChangeTrigger, user, judged, outputEchoStates, reader, told,
                    central>> /\ status = "attached" /\ status' = "detached"
    BY <1>3 DEF Detach, fixed, echoVars, sensorVars
  <2> QED
    BY <2>1 DEF Echoes, Judging
<1> QED
  BY <1>1, <1>2, <1>3

LEMMA WriterKeeps ==
  ASSUME IInv, WriterStep
  PROVE  IInv'
<1>1. UNCHANGED <<status, fullStateEcho, ratiometricSwitching, sensorValue, sensorLastValue,
                  sensorChangeTrigger, user, judged, reader, told, central>>
  BY DEF WriterStep, WriterWoken, GetPacket, Fill, Transfer, SignalWritten, notWriter, fixed,
    sensorVars
<1>2. fullStateEcho => UNCHANGED outputEchoStates
  BY DEF WriterStep, WriterWoken, GetPacket, Fill, Transfer, SignalWritten, followed
<1> QED
  BY <1>1, <1>2 DEF IInv, Shapes, Starting, Echoes, Judging, outputsTold

LEMMA UserKeeps ==
  ASSUME IInv, NEW u \in Users, Call(u) \/ UserStep(u)
  PROVE  IInv'
<1> USE DEF IInv, Shapes, Starting
<1>1. UNCHANGED <<status, fullStateEcho, sensorValue, sensorLastValue, reader, central>>
  BY DEF Call, UserStep, TakeWritelock, QueueOutput, AwaitWritten, AssignRatiometric,
    AssignRate, ResetSum, SignalWriter, FireOutput, SetMode, SetTrigger, notUser, fixed,
    sensorVars
<1>2. ratiometricSwitching' \in {ratiometricSwitching, 2}
  BY DEF Call, UserStep, TakeWritelock, QueueOutput, AwaitWritten, AssignRatiometric,
    AssignRate, ResetSum, SignalWriter, FireOutput, SetMode, SetTrigger
<1>3. CASE Call(u)
  <2>1. PICK call :
          /\ DOMAIN call = {"pc", "op", "index", "value"}
          /\ call.pc \in {"lock", "mode"}
          /\ call.op \in {"output", "ratiometric", "rate", "trigger"}
          /\ user' = [user EXCEPT ![u] = call]
    BY <1>3 DEF Call
  <2>2. UNCHANGED <<told, judged, outputEchoStates, sensorChangeTrigger>>
    BY <1>3 DEF Call
  <2> QED
    BY <1>1, <1>2, <2>1, <2>2 DEF Echoes, Judging, outputsTold
<1>4. CASE UserStep(u)
  <2>1. /\ DOMAIN user' = Users
        /\ \A v \in Users : v # u => user'[v] = user[v]
        /\ DOMAIN user'[u] = {"pc", "op", "index", "value"}
        /\ user'[u].op # "fire" /\ (user'[u].pc = "fire" => ~fullStateEcho)
    BY <1>4 DEF UserStep, TakeWritelock, QueueOutput, AwaitWritten, AssignRatiometric,
      AssignRate, ResetSum, SignalWriter, FireOutput, SetMode, SetTrigger, Move, Return, idle
  <2>2. judged' \subseteq judged
    BY <1>4 DEF UserStep, TakeWritelock, QueueOutput, AwaitWritten, AssignRatiometric,
      AssignRate, ResetSum, SignalWriter, FireOutput, SetMode, SetTrigger
  <2>3. /\ DOMAIN sensorChangeTrigger' = Sensors
        /\ \A i \in judged' : sensorChangeTrigger'[i] = sensorChangeTrigger[i]
    BY <1>4 DEF UserStep, TakeWritelock, QueueOutput, AwaitWritten, AssignRatiometric,
      AssignRate, ResetSum, SignalWriter, FireOutput, SetMode, SetTrigger
  <2>4. /\ DOMAIN told' = {"outputs", "sensors"} /\ told'.sensors = told.sensors
        /\ fullStateEcho => UNCHANGED <<told, outputEchoStates>>
    <3>1. CASE FireOutput(u)
      BY <3>1 DEF FireOutput
    <3>2. CASE ~FireOutput(u)
      BY <1>4, <3>2 DEF UserStep, TakeWritelock, QueueOutput, AwaitWritten,
        AssignRatiometric, AssignRate, ResetSum, SignalWriter, SetMode, SetTrigger
    <3> QED
      BY <3>1, <3>2
  <2>5. Shapes' /\ Starting'
    BY <1>1, <2>1, <2>2, <2>3, <2>4
  <2>6. Echoes'
    BY <1>1, <2>4 DEF Echoes, outputsTold
  <2>7. Judging'
    BY <1>1, <1>2, <2>2, <2>3, <2>4 DEF Judging, TellingPlaces
  <2> QED
    BY <2>5, <2>6, <2>7
<1> QED
  BY <1>3, <1>4

-----------------------------------------------------------------------------
(* The read thread, one packet after the other.  notReader: what it leaves.  *)

LEMMA ParserKeeps ==
  ASSUME IInv,
         ReadPacket \/ TestRatiometric \/ AdoptRatiometric \/ DecrementSwitching \/ ShowEcho
  PROVE  IInv'
<1> USE DEF IInv, Shapes, Starting
<1>1. /\ UNCHANGED <<status, fullStateEcho, sensorChangeTrigger, user, central, told, judged,
                     sensorValue, sensorLastValue, outputEchoStates>>
      /\ DOMAIN reader' = DOMAIN reader
      /\ reader.pc \in {"read", "echo", "adopt", "decrement", "echoed"}
      /\ reader'.pc \in {"echo", "adopt", "decrement", "echoed", "store"}
      /\ reader'.last = IF reader.pc = "read" THEN outputEchoStates ELSE reader.last
  BY DEF ReadPacket, TestRatiometric, AdoptRatiometric, DecrementSwitching, ShowEcho,
    notReader, fixed, sensorVars, At, To
<1>2. Shapes' /\ Starting'
  BY <1>1
<1>3. Echoes'
  BY <1>1 DEF Echoes, outputsTold
<1>4. Judging'
  BY <1>1 DEF Judging, TellingPlaces
<1> QED
  BY <1>2, <1>3, <1>4

LEMMA StoreKeeps ==
  ASSUME IInv, StoreValues
  PROVE  IInv'
<1> USE DEF IInv, Shapes, Starting
<1> DEFINE stored == IF ratiometricSwitching = 0
                     THEN {i \in Sensors : reader.packet.samples[i] # <<>>} ELSE {}
<1>1. /\ UNCHANGED <<status, fullStateEcho, ratiometricSwitching, sensorChangeTrigger, user,
                     central, told, sensorLastValue>>
      /\ reader.pc = "store" /\ reader' = [reader EXCEPT !.pc = "events"]
      /\ judged' = judged \ stored
  BY DEF StoreValues, notReader, fixed, echoVars, At, To
<1>2. \A i \in Sensors \ stored : sensorValue'[i] = sensorValue[i]
  BY DEF StoreValues
<1> HIDE DEF stored
<1>3. Shapes' /\ Starting'
  BY <1>1
<1>4. Echoes'
  BY <1>1 DEF Echoes
<1>5. \A i \in judged' : sensorValue'[i] = sensorValue[i]
  BY <1>1, <1>2
<1>6. Judging'
  BY <1>1, <1>5 DEF Judging, TellingPlaces, stored
<1> QED
  BY <1>3, <1>4, <1>6

LEMMA StartKeeps ==
  ASSUME IInv, StartEvents
  PROVE  IInv'
<1> USE DEF IInv, Shapes, Starting
<1>1. /\ UNCHANGED <<status, fullStateEcho, ratiometricSwitching, sensorChangeTrigger, user,
                     central, told, sensorValue, sensorLastValue, outputEchoStates, judged>>
      /\ reader.pc = "events" /\ DOMAIN reader' = DOMAIN reader
      /\ reader'.pc = "sensor" /\ reader'.last = reader.last
      /\ reader'.todo = IF ratiometricSwitching = 0
                        THEN {i \in Sensors : reader.packet.samples[i] # <<>>} ELSE {}
  BY DEF StartEvents, notReader, fixed, echoVars, sensorVars, At
<1>2. Shapes' /\ Starting'
  BY <1>1
<1>3. Echoes'
  BY <1>1 DEF Echoes
<1>4. Judging'
  BY <1>1 DEF Judging, TellingPlaces
<1> QED
  BY <1>2, <1>3, <1>4

\* A step that tells at most of one sensor, left to do, and may go on to the next.
LEMMA SensorDone ==
  ASSUME IInv, reader.pc \in TellingPlaces, reader.todo # {}, NextSensor,
         UNCHANGED <<status, fullStateEcho, ratiometricSwitching, sensorChangeTrigger, user,
                     central, sensorValue, outputEchoStates>>,
         NEW value,
         \/ /\ told' = told /\ DOMAIN sensorLastValue' = Sensors
            /\ \A i \in Sensors : sensorLastValue'[i] = sensorLastValue[i]
         \/ /\ told' = Told(current, value)
            /\ sensorLastValue' = [sensorLastValue EXCEPT ![current] = value],
         \/ judged' = judged
         \/ /\ judged' = judged \cup {current}
            /\ Known(sensorValue[current]) =>
                 \/ sensorValue[current] = sensorLastValue'[current]
                 \/ /\ Known(sensorLastValue'[current])
                    /\ ~Telling(sensorLastValue'[current], sensorValue[current],
                                sensorChangeTrigger[current])
  PROVE  IInv'
<1> USE DEF IInv, Shapes, Starting
<1>1. /\ current \in reader.todo /\ current \in Sensors /\ current \notin judged
      /\ reader.todo \subseteq Sensors \ judged
  BY CurrentLeft DEF Judging
<1>2. /\ DOMAIN reader' = DOMAIN reader /\ reader'.pc = "sensor" /\ reader'.last = reader.last
      /\ reader'.todo = reader.todo \ {current}
  BY DEF NextSensor
<1> HIDE DEF current, NextSensor
<1>3. /\ DOMAIN told' = {"outputs", "sensors"} /\ DOMAIN told'.sensors = Sensors
      /\ told'.outputs = told.outputs /\ DOMAIN sensorLastValue' = Sensors
      /\ \A i \in Sensors \ {current} : /\ told'.sensors[i] = told.sensors[i]
                                        /\ sensorLastValue'[i] = sensorLastValue[i]
  BY <1>1 DEF Told
<1>4. status = "attached" /\ Known(told'.sensors[current]) =>
        told'.sensors[current] = sensorLastValue'[current]
  BY <1>1 DEF Told, Judging
<1>5. Shapes'
  BY <1>1, <1>2, <1>3
<1>6. Starting'
  BY <1>2, <1>3 DEF TellingPlaces
<1>7. Echoes'
  BY <1>2, <1>3 DEF Echoes, TellingPlaces
<1>8. judged' \subseteq judged \cup {current}
  OBVIOUS
<1>9. reader'.todo \subseteq Sensors \ judged'
  BY <1>1, <1>2, <1>8
<1>10. \A i \in Sensors : status' = "attached" =>
         /\ Known(told'.sensors[i]) => told'.sensors[i] = sensorLastValue'[i]
         /\ i \in judged' /\ Known(sensorValue'[i]) /\ Known(told'.sensors[i]) =>
              \/ sensorValue'[i] = told'.sensors[i]
              \/ ~Telling(told'.sensors[i], sensorValue'[i], sensorChangeTrigger'[i])
  <2> SUFFICES ASSUME NEW i \in Sensors, status = "attached"
               PROVE  /\ Known(told'.sensors[i]) => told'.sensors[i] = sensorLastValue'[i]
                      /\ i \in judged' /\ Known(sensorValue[i]) /\ Known(told'.sensors[i]) =>
                           \/ sensorValue[i] = told'.sensors[i]
                           \/ ~Telling(told'.sensors[i], sensorValue[i],
                                       sensorChangeTrigger[i])
    OBVIOUS
  <2>1. CASE i = current
    BY <1>1, <1>4, <2>1
  <2>2. CASE i # current
    BY <1>3, <1>8, <2>2 DEF Judging
  <2> QED
    BY <2>1, <2>2
<1>11. Judging'
  BY <1>2, <1>9, <1>10 DEF Judging, TellingPlaces
<1> QED
  BY <1>5, <1>6, <1>7, <1>11

LEMMA TellerKeeps ==
  ASSUME IInv, ChangeEvent \/ SampleEvents \/ StoreCount
  PROVE  IInv'
<1> USE DEF IInv, Shapes, Starting
<1>1. /\ UNCHANGED <<status, fullStateEcho, ratiometricSwitching, sensorChangeTrigger, user,
                     central, sensorValue, outputEchoStates>>
      /\ NextSensor /\ reader.pc \in TellingPlaces
  BY DEF ChangeEvent, SampleEvents, StoreCount, notReader, fixed, echoVars, At, TellingPlaces
<1>2. reader.todo # {}
  BY DEF ChangeEvent, SampleEvents, StoreCount, At, Judging, TellingPlaces
<1>3. current \in Sensors
  BY <1>1, <1>2, CurrentLeft DEF Judging
<1>4. CASE ChangeEvent
  <2> DEFINE value == sensorValue[current]
             tell  == Known(value) /\ Telling(sensorLastValue[current], value,
                                              sensorChangeTrigger[current])
  <2>1. IF tell THEN /\ told' = Told(current, value)
                     /\ sensorLastValue' = [sensorLastValue EXCEPT ![current] = value]
                ELSE UNCHANGED <<told, sensorLastValue>>
    BY <1>4 DEF ChangeEvent
  <2>2. judged' = judged \cup {current}
    BY <1>4 DEF ChangeEvent
  <2>3. Known(value) =>
          \/ value = sensorLastValue'[current]
          \/ /\ Known(sensorLastValue'[current])
             /\ ~Telling(sensorLastValue'[current], value, sensorChangeTrigger[current])
    BY <1>3, <2>1 DEF Telling, Known
  <2> HIDE DEF tell
  <2> QED
    BY <1>1, <1>2, <2>1, <2>2, <2>3, SensorDone
<1>5. CASE SampleEvents
  <2>1. PICK last : /\ sensorLastValue' = [sensorLastValue EXCEPT ![current] = last]
                    /\ told' = IF last = sensorLastValue[current] THEN told
                                                                  ELSE Told(current, last)
                    /\ judged' = judged
    BY <1>5 DEF SampleEvents
  <2>2. last = sensorLastValue[current] =>
          /\ DOMAIN sensorLastValue' = Sensors
          /\ \A i \in Sensors : sensorLastValue'[i] = sensorLastValue[i]
    BY <1>3, <2>1
  <2> QED
    BY <1>1, <1>2, <2>1, <2>2, SensorDone
<1>6. CASE StoreCount
  <2>1. PICK value :
          /\ judged' = judged
          /\ \/ UNCHANGED <<told, sensorLastValue>>
             \/ /\ told' = Told(current, value)
                /\ sensorLastValue' = [sensorLastValue EXCEPT ![current] = value]
    BY <1>6 DEF StoreCount
  <2> QED
    BY <1>1, <1>2, <2>1, SensorDone
<1> QED
  BY <1>4, <1>5, <1>6

LEMMA AdderKeeps ==
  ASSUME IInv, LoadSum \/ StoreSum \/ LoadCount
  PROVE  IInv'
<1> USE DEF IInv, Shapes, Starting
<1>1. /\ UNCHANGED <<status, fullStateEcho, sensorChangeTrigger, user, central, told, judged,
                     sensorValue, sensorLastValue, outputEchoStates>>
      /\ DOMAIN reader' = DOMAIN reader
      /\ reader.pc \in TellingPlaces /\ reader'.pc \in TellingPlaces
      /\ reader'.last = reader.last /\ reader'.todo = reader.todo
      /\ reader.pc = "sensor" => reader.todo # {}
  BY DEF LoadSum, StoreSum, LoadCount, notReader, fixed, sensorVars, At, TellingPlaces
<1>2. Shapes' /\ Starting'
  BY <1>1 DEF TellingPlaces
<1>3. Echoes'
  BY <1>1 DEF Echoes, TellingPlaces
<1>4. Judging'
  BY <1>1 DEF Judging, TellingPlaces
<1> QED
  BY <1>2, <1>3, <1>4

LEMMA OutputsTellerKeeps ==
  ASSUME IInv, OutputEvents
  PROVE  IInv'
<1> USE DEF IInv, Shapes, Starting
<1>1. /\ UNCHANGED <<status, fullStateEcho, sensorChangeTrigger, user, central, judged,
                     sensorValue, sensorLastValue, outputEchoStates>>
      /\ reader.pc = "sensor" /\ DOMAIN reader' = DOMAIN reader /\ reader'.pc = "read"
  BY DEF OutputEvents, notReader, fixed, sensorVars, At, noReader
<1>2. /\ DOMAIN told' = {"outputs", "sensors"} /\ told'.sensors = told.sensors
      /\ status = "attached" => \A o \in Outputs :
           told'.outputs[o] = IF outputEchoStates[o] # reader.last[o]
                              THEN outputEchoStates[o] ELSE told.outputs[o]
  BY DEF OutputEvents
<1>3. Shapes' /\ Starting'
  BY <1>1, <1>2
<1>4. Echoes'
  <2>1. status = "attached" /\ fullStateEcho => \A o \in Outputs : outputsTold'[o]
    BY <1>1, <1>2 DEF Echoes, outputsTold
  <2> QED
    BY <1>1, <2>1 DEF Echoes
<1>5. Judging'
  BY <1>1, <1>2 DEF Judging, TellingPlaces
<1> QED
  BY <1>3, <1>4, <1>5

-----------------------------------------------------------------------------
LEMMA Inductive == IInv /\ [Next]_vars => IInv'
<1> SUFFICES ASSUME IInv, [Next]_vars PROVE IInv'
  OBVIOUS
<1>1. CASE InitAfterOpen \/ EventsAfterOpen \/ Detach
  BY <1>1, CentralKeeps
<1>2. CASE ReaderStep
  BY <1>2, ParserKeeps, StoreKeeps, StartKeeps, TellerKeeps, AdderKeeps, OutputsTellerKeeps
    DEF ReaderStep
<1>3. CASE WriterStep
  BY <1>3, WriterKeeps
<1>4. CASE \E u \in Users : Call(u) \/ UserStep(u)
  BY <1>4, UserKeeps
<1>5. CASE UNCHANGED vars
  BY <1>5 DEF vars, fixed, echoVars, sensorVars, IInv, Shapes, Starting, Echoes, Judging,
    outputsTold, TellingPlaces
<1> QED
  BY <1>1, <1>2, <1>3, <1>4, <1>5 DEF Next

\* dataInput compares the outputs a packet holds with those at its start, and the
\* attach tells what the first packet held: at rest the handler of a device that
\* echoes has been told the state of every output.
THEOREM EchoCorrect == Spec => []EchoTold
<1>1. IInv => EchoTold
  BY DEF IInv, Echoes, EchoTold, atRest
<1> QED
  BY <1>1, Begins, Inductive, PTL DEF Spec

\* sensorLastValue is assigned where the handler is called, and setters that
\* change the trigger or the mode leave it alone: between two packets the value
\* of a sensor that was compared is within its trigger of the value last told,
\* whichever mode that was told in.
THEOREM TriggerCorrect == Spec => []ToldWithinTrigger
<1>1. IInv => ToldWithinTrigger
  BY DEF IInv, Shapes, Judging, ToldWithinTrigger
<1> QED
  BY <1>1, Begins, Inductive, PTL DEF Spec

-----------------------------------------------------------------------------
(* What the device has of what was set: the outputs, the rates and the mode. *)

InHand == reader.pc \notin {"none", "read"}
Sending == writer.pc = "transfer"

\* The write thread has still to take what was set.
Waiting ==
  \/ writeAvailable \/ writer.pc = "get"
  \/ \E u \in Users : user[u].pc \in {"reset", "signal"}

Domains ==
  /\ DOMAIN writer = {"pc", "packet"}
  /\ DOMAIN device = {"outputs", "ratiometric", "rate", "measured"}
  /\ DOMAIN changedOutputs = Outputs /\ DOMAIN nextOutputStates = Outputs
  /\ DOMAIN asked = Outputs
  /\ central = "init" <=> writer.pc = "none"
  /\ writer.pc \in {"none", "loop", "get", "transfer", "sent", "failed", "dead"}
  /\ \A u \in Users : user[u].pc \in {"ratiometric", "rate"} => user[u].op = user[u].pc

\* What was accepted is queued or, once taken from the queue, in outputStates.
Accepted ==
  /\ \A o \in Outputs : Known(asked[o]) =>
       asked[o] = IF changedOutputs[o] THEN nextOutputStates[o] ELSE outputStates[o]
  /\ status = "attaching" =>
       \A o \in Outputs : ~Known(asked[o]) /\ ~changedOutputs[o] /\ ~Known(outputStates[o])
  /\ (\E o \in Outputs : changedOutputs[o]) => Waiting

\* The device has what outputStates has, or is sent it; it was left with its
\* outputs on, and nothing is sent while the state of one is unknown.
Delivered ==
  \A o \in Outputs :
    /\ Sending => writer.packet.outputs[o] = outputStates[o]
    /\ writer.pc \in {"loop", "get", "sent"} /\ Known(outputStates[o]) =>
         device.outputs[o] = outputStates[o]
    /\ ~Known(outputStates[o]) =>
         /\ writer.pc \in {"none", "loop", "get"} /\ device.outputs[o] = TRUE
         /\ reader.packet.outputs[o] \in {TRUE, Unknown}

RatesDelivered ==
  ~Waiting =>
    /\ Sending => writer.packet.rate = sentRates
    /\ writer.pc \in {"none", "loop", "sent"} => device.rate = sentRates

\* The mode is shown once it is known; until then the device has the one it was
\* left with.
ModeKnown ==
  fullStateEcho =>
    /\ Known(ratiometricEcho) \/ reader.pc \in {"decrement", "echoed"} => Known(ratiometric)
    /\ reader.pc = "adopt" => ~Known(ratiometricEcho)
    /\ \A u \in Users : user[u].op = "ratiometric" =>
         Known(ratiometricEcho) /\ user[u].value \in BOOLEAN
    /\ ratiometric \in State /\ ratiometricEcho \in State /\ device.ratiometric \in BOOLEAN
    /\ Sending => writer.packet.ratiometric \in BOOLEAN
    /\ InHand => reader.packet.echo \in BOOLEAN
    /\ ~Known(ratiometricEcho) =>
         /\ ratiometric \in {Unknown, TRUE} /\ device.ratiometric = TRUE
         /\ Sending => writer.packet.ratiometric = TRUE
         /\ InHand => reader.packet.echo = TRUE

ModeDelivered ==
  fullStateEcho /\ ~Waiting /\ Known(ratiometric) =>
    /\ Sending => writer.packet.ratiometric = ratiometric
    /\ writer.pc \in {"none", "loop", "sent"} => device.ratiometric = ratiometric

CInv == IInv /\ Domains /\ Accepted /\ Delivered /\ RatesDelivered /\ ModeKnown
             /\ ModeDelivered

-----------------------------------------------------------------------------
(* The mode in which the values that are shown were measured.              *)

\* At most one of the users sets the ratiometric mode.
OneSwitcher ==
  \A sc \in Scripts, u, v \in Users :
    "ratiometric" \in sc.calls[u] /\ "ratiometric" \in sc.calls[v] => u = v

Sampled ==
  /\ DOMAIN dataRate = Sensors
  /\ \A i \in Sensors : DataRateMax =< dataRate[i] /\ dataRate[i] \in Int
  /\ \A i \in Sensors : device.rate[i] \in DataRateMax .. InterruptRate
  /\ Sending => \A i \in Sensors : writer.packet.rate[i] \in DataRateMax .. InterruptRate
  /\ \A u \in Users : user[u].op = "rate" => user[u].value \in Int /\ DataRateMax =< user[u].value
  /\ fullStateEcho /\ InHand => \A i \in script.sampled \cap Sensors : reader.packet.samples[i] # <<>>
  /\ InHand => \A i \in Sensors \ script.sampled : reader.packet.samples[i] = <<>>
  /\ \A i \in Sensors \ script.sampled : sensorMode[i] = Unknown

Switcher ==
  /\ script \in Scripts
  /\ \A u \in Users : user[u].op = "ratiometric" =>
       /\ "ratiometric" \in script.calls[u]
       /\ user[u].pc \in {"lock", "ratiometric"} =>
            ratiometric = ratiometricEcho /\ user[u].value # ratiometric

\* No mode is known yet.
Fresh ==
  /\ central = "init" => ~Known(ratiometricEcho)
  /\ ~Known(ratiometricEcho) =>
       /\ ratiometricSwitching = 0 /\ reader.pc # "decrement"
       /\ device.measured = TRUE
       /\ InHand => reader.packet.mode = TRUE
       /\ \A i \in Sensors : sensorMode[i] \in {Unknown, TRUE}

\* The mode last set is shown, and is that of the values or of those in hand.
Steady ==
  Known(ratiometricEcho) /\ ratiometric = ratiometricEcho =>
    /\ ratiometricSwitching = 0 /\ reader.pc # "decrement"
    /\ device.ratiometric = ratiometric /\ device.measured = ratiometric
    /\ Sending => writer.packet.ratiometric = ratiometric
    /\ InHand => reader.packet.echo = ratiometric /\ reader.packet.mode = ratiometric
    /\ \A i \in Sensors :
         \/ sensorMode[i] \in {Unknown, ratiometric}
         \/ reader.pc = "store" /\ reader.packet.samples[i] # <<>>

\* Another mode was set: the device has it or is sent it; the packet that still
\* holds what was measured before is the one that is skipped.
Switching ==
  Known(ratiometricEcho) /\ ratiometric # ratiometricEcho =>
    /\ device.measured \in {ratiometric, ratiometricEcho}
    /\ device.measured = ratiometric => device.ratiometric = ratiometric
    /\ device.ratiometric = ratiometric /\ Sending => writer.packet.ratiometric = ratiometric
    /\ InHand /\ reader.packet.echo = ratiometric => device.measured = ratiometric
    /\ InHand /\ reader.packet.mode = ratiometric => reader.packet.echo = ratiometric
    /\ InHand => reader.packet.mode \in BOOLEAN
    /\ ratiometricSwitching \in 0 .. 2
    /\ ratiometricSwitching = 2 /\ device.measured = ratiometric =>
         /\ InHand /\ reader.packet.echo = ratiometric /\ reader.packet.mode = ratiometricEcho
         /\ reader.pc \in {"echo", "decrement"}
    /\ ratiometricSwitching = 1 =>
         /\ device.measured = ratiometric
         /\ InHand => reader.packet.echo = ratiometric
         /\ reader.pc \in {"echo", "decrement"} => reader.packet.mode = ratiometric
    /\ ratiometricSwitching = 0 =>
         /\ reader.pc = "echoed"
         /\ reader.packet.echo = ratiometric /\ reader.packet.mode = ratiometric
    /\ reader.pc = "decrement" =>
         /\ reader.loaded = ratiometricSwitching /\ ratiometricSwitching \in {1, 2}
         /\ reader.packet.echo = ratiometric

Switches == Switcher /\ Fresh /\ Steady /\ Switching

\* A device that does not echo has no mode.
NotEchoed ==
  /\ ~Known(ratiometricEcho)
  /\ reader.pc \notin {"echo", "adopt", "decrement", "echoed"}

MInv == Sampled /\ IF fullStateEcho THEN Switches ELSE NotEchoed

-----------------------------------------------------------------------------
USE UnknownAssumption

LEMMA ConfiguredBegins == Init => CInv
<1> SUFFICES ASSUME Init PROVE CInv
  OBVIOUS
<1>1. Domains
  BY DEF Init, Domains, idle
<1>2. Accepted /\ Delivered
  BY DEF Init, Accepted, Delivered, noReader, noPacket, Sending, Known
<1>3. RatesDelivered
  <2>1. sentRates = [i \in Sensors |-> InterruptRate]
    BY RateAssumption DEF Init, sentRates, Lesser
  <2> QED
    BY <2>1 DEF Init, RatesDelivered, Sending
<1>4. ModeKnown /\ ModeDelivered
  BY DEF Init, ModeKnown, ModeDelivered, State, Known, Sending, InHand, idle, noReader
<1> QED
  BY <1>1, <1>2, <1>3, <1>4, Begins DEF CInv

\* What the read thread leaves alone.
LEMMA ReaderFrame ==
  ASSUME Shapes, Domains, ReaderStep
  PROVE  /\ UNCHANGED <<status, fullStateEcho, script, nextOutputStates, changedOutputs,
                        eventMode, dataRate, writeAvailable, writer, central, user, asked>>
         /\ DOMAIN device' = DOMAIN device /\ device'.outputs = device.outputs
         /\ device'.rate = device.rate /\ device'.ratiometric = device.ratiometric
         /\ reader.pc # "none" /\ reader'.pc # "none"
<1>1. UNCHANGED <<status, fullStateEcho, script, nextOutputStates, changedOutputs, eventMode,
                  dataRate, writeAvailable, writer, central, user, asked>>
  BY DEF ReaderStep, ReadPacket, TestRatiometric, AdoptRatiometric, DecrementSwitching,
    ShowEcho, StoreValues, StartEvents, ChangeEvent, SampleEvents, LoadSum, StoreSum, LoadCount,
    StoreCount, OutputEvents, notReader, fixed, rateVars, eventVars
<1>2. \/ device' = device
      \/ device' = [device EXCEPT !.measured = device.ratiometric]
  BY DEF ReaderStep, ReadPacket, TestRatiometric, AdoptRatiometric, DecrementSwitching,
    ShowEcho, StoreValues, StartEvents, ChangeEvent, SampleEvents, LoadSum, StoreSum, LoadCount,
    StoreCount, OutputEvents
<1>3. reader.pc # "none"
  BY DEF ReaderStep, ReadPacket, TestRatiometric, AdoptRatiometric, DecrementSwitching,
    ShowEcho, StoreValues, StartEvents, ChangeEvent, SampleEvents, LoadSum, StoreSum, LoadCount,
    StoreCount, OutputEvents, At
<1>4. reader'.pc # "none"
  BY DEF ReaderStep, ReadPacket, TestRatiometric, AdoptRatiometric, DecrementSwitching,
    ShowEcho, StoreValues, StartEvents, ChangeEvent, SampleEvents, LoadSum, StoreSum, LoadCount,
    StoreCount, OutputEvents, To, NextSensor, noReader, Shapes
<1> QED
  BY <1>1, <1>2, <1>3, <1>4 DEF Domains

\* Where the read thread is with the packet it has.
LEMMA ReaderPacket ==
  ASSUME Shapes, ReaderStep
  PROVE  \/ /\ ReadPacket
            /\ reader'.pc = IF fullStateEcho THEN "echo" ELSE "store"
            /\ IF fullStateEcho THEN /\ reader'.packet.echo = device.ratiometric
                                     /\ reader'.packet.outputs = device.outputs
                                     /\ reader'.packet.mode = device.measured
                                ELSE reader'.packet = noPacket
            /\ UNCHANGED <<echoVars, outputStates, sensorMode>>
         \/ /\ OutputEvents /\ reader' = [noReader EXCEPT !.pc = "read"]
            /\ reader.pc = "sensor"
            /\ UNCHANGED <<echoVars, outputStates, sensorMode, device>>
         \/ /\ reader'.packet = reader.packet /\ InHand /\ InHand' /\ device' = device
            /\ \/ TestRatiometric \/ AdoptRatiometric \/ DecrementSwitching \/ ShowEcho
               \/ StoreValues
               \/ /\ {reader.pc, reader'.pc} \cap {"echo", "adopt", "decrement", "echoed",
                                                   "store"} = {}
                  /\ UNCHANGED <<echoVars, outputStates, sensorMode>>
<1> USE DEF Shapes
<1>1. CASE ReadPacket
  <2>1. PICK samples :
          reader' = [reader EXCEPT
                       !.pc = IF fullStateEcho THEN "echo" ELSE "store",
                       !.last = outputEchoStates,
                       !.packet = IF fullStateEcho
                                  THEN [echo |-> device.ratiometric, outputs |-> device.outputs,
                                        samples |-> samples, mode |-> device.measured]
                                  ELSE noPacket]
    BY <1>1 DEF ReadPacket
  <2>2. UNCHANGED <<echoVars, outputStates, sensorMode>>
    BY <1>1 DEF ReadPacket, sensorVars
  <2> QED
    BY <1>1, <2>1, <2>2
<1>2. CASE OutputEvents
  BY <1>2 DEF OutputEvents, At, sensorVars
<1>3. CASE TestRatiometric \/ AdoptRatiometric \/ DecrementSwitching \/ ShowEcho \/ StoreValues
  BY <1>3 DEF TestRatiometric, AdoptRatiometric, DecrementSwitching, ShowEcho, StoreValues,
    InHand, At, To
<1>4. CASE StartEvents \/ ChangeEvent \/ SampleEvents \/ LoadSum \/ StoreSum \/ LoadCount
           \/ StoreCount
  BY <1>4 DEF StartEvents, ChangeEvent, SampleEvents, LoadSum, StoreSum, LoadCount, StoreCount,
    InHand, At, NextSensor, sensorVars
<1> QED
  BY <1>1, <1>2, <1>3, <1>4 DEF ReaderStep

LEMMA ReaderConfigured ==
  ASSUME CInv, ReaderStep
  PROVE  Domains' /\ Accepted' /\ Delivered' /\ RatesDelivered' /\ ModeKnown' /\ ModeDelivered'
<1> USE DEF CInv, IInv
<1>1. /\ UNCHANGED <<status, fullStateEcho, script, nextOutputStates, changedOutputs, dataRate,
                     writeAvailable, writer, central, user, asked>>
      /\ DOMAIN device' = DOMAIN device /\ device'.outputs = device.outputs
      /\ device'.rate = device.rate /\ device'.ratiometric = device.ratiometric
      /\ reader.pc # "none" /\ reader'.pc # "none"
  BY ReaderFrame
<1>2. status # "attaching"
  BY <1>1 DEF Starting
<1>3. (Waiting' <=> Waiting) /\ (Sending' <=> Sending)
  BY <1>1 DEF Waiting, Sending
<1>4. \A o \in Outputs :
        \/ outputStates'[o] = outputStates[o]
        \/ ~Known(outputStates[o]) /\ outputStates'[o] = reader.packet.outputs[o]
  <2>1. CASE StoreValues
    BY <2>1 DEF StoreValues
  <2>2. CASE ~StoreValues
    BY <2>2, ReaderPacket DEF echoVars, TestRatiometric, AdoptRatiometric, DecrementSwitching,
      ShowEcho
  <2> QED
    BY <2>1, <2>2
<1>5. \A o \in Outputs : ~Known(outputStates[o]) => reader'.packet.outputs[o] \in {TRUE, Unknown}
  <2> DEFINE on(p) == \A o \in Outputs : ~Known(outputStates[o]) => p.outputs[o] \in {TRUE, Unknown}
  <2>1. on(noPacket)
    BY DEF noPacket
  <2>2. on(reader.packet)
    BY DEF Delivered
  <2>3. reader'.packet.outputs = device.outputs => on(reader'.packet)
    BY DEF Delivered
  <2>4. \/ reader'.packet = noPacket \/ reader'.packet = reader.packet
        \/ reader'.packet.outputs = device.outputs
    BY ReaderPacket DEF noReader
  <2> QED
    BY <2>1, <2>2, <2>3, <2>4
<1>6. Domains' /\ RatesDelivered'
  BY <1>1, <1>3 DEF Domains, RatesDelivered, sentRates
<1>7. Accepted'
  BY <1>1, <1>2, <1>3, <1>4 DEF Accepted
<1>8. Delivered'
  <2>1. \A o \in Outputs : ~Known(outputStates'[o]) => ~Known(outputStates[o])
    BY <1>4
  <2> SUFFICES ASSUME NEW o \in Outputs
               PROVE  /\ Sending => writer.packet.outputs[o] = outputStates'[o]
                      /\ writer.pc \in {"loop", "get", "sent"} /\ Known(outputStates'[o]) =>
                           device.outputs[o] = outputStates'[o]
                      /\ ~Known(outputStates'[o]) =>
                           /\ writer.pc \in {"none", "loop", "get"} /\ device.outputs[o] = TRUE
                           /\ reader'.packet.outputs[o] \in {TRUE, Unknown}
    BY <1>1, <1>3 DEF Delivered
  <2>2. CASE outputStates'[o] = outputStates[o]
    BY <1>5, <2>2 DEF Delivered
  <2>3. CASE ~Known(outputStates[o]) /\ outputStates'[o] = reader.packet.outputs[o]
    BY <1>5, <2>3 DEF Delivered, Known, Sending
  <2> QED
    BY <1>4, <2>2, <2>3
<1>9. ModeKnown' /\ ModeDelivered'
  <2> SUFFICES ASSUME fullStateEcho PROVE ModeKnown' /\ ModeDelivered'
    BY <1>1 DEF ModeKnown, ModeDelivered
  <2>1. CASE ReadPacket
    <3>1. UNCHANGED echoVars /\ reader'.pc = "echo" /\ reader'.packet.echo = device.ratiometric
      BY <2>1 DEF ReadPacket, Shapes
    <3> QED
      BY <1>1, <1>3, <3>1 DEF ModeKnown, ModeDelivered, echoVars, InHand
  <2>2. CASE OutputEvents
    <3>1. UNCHANGED echoVars /\ reader'.pc = "read"
      BY <2>2 DEF OutputEvents, noReader
    <3> QED
      BY <1>1, <1>3, <3>1 DEF ModeKnown, ModeDelivered, echoVars, InHand
  <2>3. CASE TestRatiometric
    <3>1. /\ UNCHANGED echoVars /\ reader'.packet = reader.packet /\ InHand
          /\ \/ reader'.pc = "adopt" /\ ~Known(ratiometric)
             \/ reader'.pc \in {"decrement", "echoed"} /\ Known(ratiometric)
      BY <2>3 DEF TestRatiometric, Shapes, At, InHand
    <3> QED
      BY <1>1, <1>3, <3>1 DEF ModeKnown, ModeDelivered, echoVars
  <2>4. CASE AdoptRatiometric
    <3>1. /\ UNCHANGED ratiometricEcho /\ reader'.packet = reader.packet /\ InHand
          /\ reader.pc = "adopt" /\ reader'.pc = "echo" /\ ratiometric' = reader.packet.echo
      BY <2>4 DEF AdoptRatiometric, Shapes, At, To, InHand
    <3>2. ~Known(ratiometricEcho) /\ ratiometric' = TRUE
      BY <3>1 DEF ModeKnown
    <3> QED
      BY <1>1, <1>3, <3>1, <3>2 DEF ModeKnown, ModeDelivered, State, Known
  <2>5. CASE DecrementSwitching
    <3>1. /\ UNCHANGED <<ratiometric, ratiometricEcho>> /\ reader'.packet = reader.packet
          /\ InHand /\ reader.pc = "decrement" /\ reader'.pc = "echoed"
      BY <2>5 DEF DecrementSwitching, Shapes, At, InHand
    <3> QED
      BY <1>1, <1>3, <3>1 DEF ModeKnown, ModeDelivered
  <2>6. CASE ShowEcho
    <3>1. /\ UNCHANGED ratiometric /\ reader'.packet = reader.packet /\ InHand
          /\ reader.pc = "echoed" /\ reader'.pc = "store"
          /\ ratiometricEcho' \in {ratiometricEcho, reader.packet.echo}
      BY <2>6 DEF ShowEcho, Shapes, At, To, InHand
    <3>2. /\ Known(ratiometricEcho) => Known(ratiometricEcho')
          /\ ratiometricEcho' \in State
      BY <3>1 DEF ModeKnown, Known, State
    <3> QED
      BY <1>1, <1>3, <3>1, <3>2 DEF ModeKnown, ModeDelivered
  <2>7. CASE StoreValues
    <3>1. /\ UNCHANGED echoVars /\ reader'.packet = reader.packet /\ InHand
          /\ reader'.pc = "events"
      BY <2>7 DEF StoreValues, Shapes, At, To, InHand
    <3> QED
      BY <1>1, <1>3, <3>1 DEF ModeKnown, ModeDelivered, echoVars
  <2>8. ASSUME UNCHANGED echoVars, reader'.packet = reader.packet, InHand,
               reader'.pc \notin {"echo", "adopt", "decrement", "echoed", "store"}
        PROVE  ModeKnown' /\ ModeDelivered'
    BY <1>1, <1>3, <2>8 DEF ModeKnown, ModeDelivered, echoVars
  <2> QED
    BY <2>1, <2>2, <2>3, <2>4, <2>5, <2>6, <2>7, <2>8, ReaderPacket
<1> QED
  BY <1>6, <1>7, <1>8, <1>9

LEMMA CentralConfigured ==
  ASSUME CInv, InitAfterOpen \/ EventsAfterOpen \/ Detach
  PROVE  Domains' /\ Accepted' /\ Delivered' /\ RatesDelivered' /\ ModeKnown' /\ ModeDelivered'
<1> USE DEF CInv, IInv
<1>1. CASE InitAfterOpen
  <2>1. /\ UNCHANGED <<fullStateEcho, nextOutputStates, changedOutputs, dataRate,
                       writeAvailable, reader, user, device, asked>>
        /\ central = "init" /\ central' = "events" /\ status' = "attached"
        /\ writer' = [writer EXCEPT !.pc = "loop"]
        /\ \/ UNCHANGED <<ratiometric, ratiometricEcho, outputStates>>
           \/ /\ fullStateEcho /\ outputStates' = device.outputs
              /\ ratiometric' = device.ratiometric /\ ratiometricEcho' = device.ratiometric
    BY <1>1 DEF InitAfterOpen, fixed, rateVars, eventVars
  <2>2. /\ writer.pc = "none" /\ writer'.pc = "loop" /\ writer'.packet = writer.packet
        /\ DOMAIN writer' = DOMAIN writer /\ reader.pc = "none" /\ status = "attaching"
    BY <2>1 DEF Domains, Starting
  <2>3. \A o \in Outputs : ~Known(outputStates[o]) /\ device.outputs[o] = TRUE
    BY <2>2 DEF Accepted, Delivered
  <2>4. Waiting' <=> Waiting
    BY <2>1, <2>2 DEF Waiting
  <2>5. Domains' /\ Accepted'
    BY <2>1, <2>2, <2>4 DEF Domains, Accepted
  <2>6. Delivered'
    BY <2>1, <2>2, <2>3 DEF Delivered, Sending, Known
  <2>7. RatesDelivered'
    BY <2>1, <2>2, <2>4 DEF RatesDelivered, Sending, sentRates
  <2>8. ModeKnown' /\ ModeDelivered'
    <3> SUFFICES ASSUME fullStateEcho PROVE ModeKnown' /\ ModeDelivered'
      BY <2>1 DEF ModeKnown, ModeDelivered
    <3>1. CASE UNCHANGED <<ratiometric, ratiometricEcho>>
      BY <2>1, <2>2, <2>4, <3>1 DEF ModeKnown, ModeDelivered, Sending, InHand
    <3>2. CASE ratiometric' = device.ratiometric /\ ratiometricEcho' = device.ratiometric
      BY <2>1, <2>2, <2>4, <3>2 DEF ModeKnown, ModeDelivered, Sending, InHand, State, Known
    <3> QED
      BY <2>1, <3>1, <3>2
  <2> QED
    BY <2>5, <2>6, <2>7, <2>8
<1>2. CASE EventsAfterOpen \/ Detach
  <2>1. /\ UNCHANGED <<fullStateEcho, nextOutputStates, changedOutputs, dataRate, outputStates,
                       ratiometric, ratiometricEcho, writeAvailable, writer, user, device, asked>>
        /\ reader' = reader \/ (reader' = [reader EXCEPT !.pc = "read"] /\ reader.pc = "none")
        /\ status' = status \/ status' = "detached"
        /\ central' = central \/ (central = "events" /\ central' = "done")
    BY <1>2 DEF EventsAfterOpen, Detach, fixed, rateVars, eventVars, outputVars, echoVars,
      Starting
  <2>2. /\ reader'.packet = reader.packet
        /\ \/ reader'.pc = reader.pc
           \/ reader'.pc = "read" /\ reader.pc = "none"
    BY <2>1 DEF Shapes
  <2>3. (InHand' <=> InHand) /\ (Waiting' <=> Waiting) /\ (Sending' <=> Sending)
    BY <2>1, <2>2 DEF InHand, Waiting, Sending
  <2>4. Domains' /\ Accepted' /\ Delivered' /\ RatesDelivered'
    BY <2>1, <2>2, <2>3 DEF Domains, Accepted, Delivered, RatesDelivered, sentRates
  <2>5. ModeKnown' /\ ModeDelivered'
    BY <2>1, <2>2, <2>3 DEF ModeKnown, ModeDelivered
  <2> QED
    BY <2>4, <2>5
<1> QED
  BY <1>1, <1>2

LEMMA WriterConfigured ==
  ASSUME CInv, WriterStep
  PROVE  Domains' /\ Accepted' /\ Delivered' /\ RatesDelivered' /\ ModeKnown' /\ ModeDelivered'
<1> USE DEF CInv, IInv
<1>1. UNCHANGED <<status, fullStateEcho, ratiometricEcho, dataRate, central, reader, user, asked>>
  BY DEF WriterStep, WriterWoken, GetPacket, Fill, Transfer, SignalWritten, notWriter, fixed,
    rateVars
<1>2. InHand' <=> InHand
  BY <1>1 DEF InHand
<1>3. ASSUME UNCHANGED <<ratiometric, outputStates, nextOutputStates, changedOutputs, device>>,
             DOMAIN writer' = DOMAIN writer,
             <<writer.pc, writer'.pc>> \in {<<"loop", "get">>, <<"transfer", "failed">>,
                                            <<"sent", "loop">>, <<"failed", "dead">>},
             writer'.pc = "get" \/ writeAvailable' = writeAvailable
      PROVE  /\ Domains' /\ Accepted' /\ Delivered' /\ RatesDelivered'
             /\ ModeKnown' /\ ModeDelivered'
  <2>1. ~Sending' /\ writer.pc # "get" /\ (Waiting => Waiting')
    BY <1>1, <1>3 DEF Sending, Waiting
  <2>2. Domains' /\ Accepted'
    BY <1>1, <1>3, <2>1 DEF Domains, Accepted
  <2>3. Delivered'
    BY <1>1, <1>3, <2>1 DEF Delivered, Sending
  <2>4. RatesDelivered'
    BY <1>1, <1>3, <2>1 DEF RatesDelivered, sentRates, Waiting
  <2>5. ModeKnown' /\ ModeDelivered'
    BY <1>1, <1>2, <1>3, <2>1 DEF ModeKnown, ModeDelivered, Waiting
  <2> QED
    BY <2>2, <2>3, <2>4, <2>5
<1>4. CASE WriterWoken \/ SignalWritten
  BY <1>3, <1>4 DEF WriterWoken, SignalWritten, outputVars, Domains
<1>5. CASE GetPacket
  <2>1. /\ outputStates' = taken /\ UNCHANGED <<writeAvailable, device>>
        /\ nextOutputStates' = [o \in Outputs |-> IF changedOutputs[o] THEN Unknown
                                                             ELSE nextOutputStates[o]]
        /\ changedOutputs' = [o \in Outputs |-> FALSE]
        /\ ratiometric' = IF fullStateEcho /\ ~Known(ratiometric) THEN TRUE ELSE ratiometric
        /\ writer' = [pc |-> "transfer",
                      packet |-> [outputs |-> taken, ratiometric |-> ratiometric',
                                  rate |-> sentRates]]
        /\ writer.pc = "get"
    BY <1>5 DEF GetPacket, Fill, eventVars
  <2>2. \A o \in Outputs :
          /\ Known(outputStates'[o])
          /\ LET state == IF changedOutputs[o] THEN nextOutputStates[o] ELSE outputStates[o]
             IN Known(state) => outputStates'[o] = state
    BY <2>1 DEF taken, Known
  <2>3. /\ Sending' /\ writer'.pc = "transfer" /\ writer'.packet.outputs = outputStates'
        /\ writer'.packet.rate = sentRates' /\ writer'.packet.ratiometric = ratiometric'
        /\ DOMAIN writer' = {"pc", "packet"} /\ status # "attaching"
    BY <1>1, <2>1 DEF Sending, sentRates, Domains, Starting
  <2>4. Domains' /\ Accepted'
    BY <1>1, <2>1, <2>2, <2>3 DEF Domains, Accepted
  <2>5. Delivered' /\ RatesDelivered'
    BY <2>2, <2>3 DEF Delivered, RatesDelivered
  <2>6. ModeKnown' /\ ModeDelivered'
    <3>1. fullStateEcho => ratiometric' \in BOOLEAN
      BY <2>1 DEF ModeKnown, State, Known
    <3>2. ~Known(ratiometricEcho) /\ fullStateEcho => ratiometric' = TRUE
      BY <2>1 DEF ModeKnown, Known
    <3> QED
      BY <1>1, <1>2, <2>1, <2>3, <3>1, <3>2 DEF ModeKnown, ModeDelivered, State, Known
  <2> QED
    BY <2>4, <2>5, <2>6
<1>6. CASE Transfer
  <2>1. /\ UNCHANGED <<ratiometric, outputStates, nextOutputStates, changedOutputs,
                       writeAvailable>>
        /\ writer.pc = "transfer" /\ DOMAIN writer' = DOMAIN writer
        /\ \/ writer'.pc = "sent"
           \/ writer'.pc = "failed" /\ device' = device
    BY <1>6 DEF Transfer, outputVars, eventVars, Domains
  <2>2. CASE writer'.pc = "failed" /\ device' = device
    BY <1>3, <2>1, <2>2
  <2>3. CASE writer'.pc = "sent"
    <3>1. /\ device'.outputs = writer.packet.outputs /\ device'.rate = writer.packet.rate
          /\ fullStateEcho => device'.ratiometric = writer.packet.ratiometric
          /\ DOMAIN device' = DOMAIN device
      <4>1. device' = [device EXCEPT
                         !.outputs = writer.packet.outputs, !.rate = writer.packet.rate,
                         !.ratiometric = IF fullStateEcho THEN writer.packet.ratiometric
                                                          ELSE @]
        BY <1>6, <2>3 DEF Transfer
      <4> QED
        BY <4>1 DEF Domains
    <3>2. Sending /\ ~Sending' /\ (Waiting' <=> Waiting)
      BY <1>1, <2>1, <2>3 DEF Sending, Waiting
    <3>3. Domains' /\ Accepted'
      BY <1>1, <2>1, <2>3, <3>1, <3>2 DEF Domains, Accepted
    <3>4. Delivered' /\ RatesDelivered'
      BY <1>1, <2>1, <2>3, <3>1, <3>2 DEF Delivered, RatesDelivered, sentRates
    <3>5. ModeKnown' /\ ModeDelivered'
      BY <1>1, <1>2, <2>1, <2>3, <3>1, <3>2 DEF ModeKnown, ModeDelivered
    <3> QED
      BY <3>3, <3>4, <3>5
  <2> QED
    BY <2>1, <2>2, <2>3
<1> QED
  BY <1>4, <1>5, <1>6 DEF WriterStep

\* A user that sets something keeps the write thread from having nothing to do.
LEMMA UserWaits ==
  ASSUME Shapes, NEW u \in Users, Call(u) \/ UserStep(u)
  PROVE  /\ Waiting => Waiting'
         /\ \/ UNCHANGED <<ratiometric, dataRate, nextOutputStates, changedOutputs>>
            \/ Waiting'
<1> USE DEF Shapes
<1>1. /\ writer' = writer /\ \A v \in Users \ {u} : user'[v] = user[v]
      /\ writeAvailable => writeAvailable'
  BY DEF Call, UserStep, TakeWritelock, QueueOutput, AwaitWritten, AssignRatiometric,
    AssignRate, ResetSum, SignalWriter, FireOutput, SetMode, SetTrigger, notUser, Move, Return,
    eventVars
<1>2. \/ user[u].pc \notin {"reset", "signal"}
      \/ user'[u].pc \in {"reset", "signal"}
      \/ writeAvailable'
  BY DEF Call, UserStep, TakeWritelock, QueueOutput, AwaitWritten, AssignRatiometric,
    AssignRate, ResetSum, SignalWriter, FireOutput, SetMode, SetTrigger, Move, Return, idle
<1>3. \/ UNCHANGED <<ratiometric, dataRate, nextOutputStates, changedOutputs>>
      \/ user'[u].pc \in {"reset", "signal"}
  BY DEF Call, UserStep, TakeWritelock, QueueOutput, AwaitWritten, AssignRatiometric,
    AssignRate, ResetSum, SignalWriter, FireOutput, SetMode, SetTrigger, Move, outputVars,
    rateVars
<1> QED
  BY <1>1, <1>2, <1>3 DEF Waiting

LEMMA UserConfigured ==
  ASSUME CInv, Patient, NEW u \in Users, Call(u) \/ UserStep(u)
  PROVE  Domains' /\ Accepted' /\ Delivered' /\ RatesDelivered' /\ ModeKnown' /\ ModeDelivered'
<1> USE DEF CInv, IInv
<1>1. UNCHANGED <<status, fullStateEcho, ratiometricEcho, central, reader, writer, device,
                  outputStates>>
  BY DEF Call, UserStep, TakeWritelock, QueueOutput, AwaitWritten, AssignRatiometric,
    AssignRate, ResetSum, SignalWriter, FireOutput, SetMode, SetTrigger, notUser, fixed,
    outputVars
<1>2. /\ Waiting => Waiting'
      /\ \/ UNCHANGED <<ratiometric, dataRate, nextOutputStates, changedOutputs>>
         \/ Waiting'
  BY UserWaits
<1>3. (InHand' <=> InHand) /\ (Sending' <=> Sending)
  BY <1>1 DEF InHand, Sending
<1>4. /\ DOMAIN changedOutputs' = Outputs /\ DOMAIN nextOutputStates' = Outputs
      /\ DOMAIN asked' = Outputs
  BY DEF Call, UserStep, TakeWritelock, QueueOutput, AwaitWritten, AssignRatiometric,
    AssignRate, ResetSum, SignalWriter, FireOutput, SetMode, SetTrigger, outputVars, Domains
<1>5. /\ user'[u].pc \in {"ratiometric", "rate"} => user'[u].op = user'[u].pc
      /\ \A v \in Users \ {u} : user'[v] = user[v]
  BY DEF Call, UserStep, TakeWritelock, QueueOutput, AwaitWritten, AssignRatiometric,
    AssignRate, ResetSum, SignalWriter, FireOutput, SetMode, SetTrigger, Move, Return, idle,
    Shapes
<1>6. Domains'
  BY <1>1, <1>4, <1>5 DEF Domains
<1>7. Accepted'
  <2>1. CASE QueueOutput(u)
    <3>1. \/ UNCHANGED <<nextOutputStates, changedOutputs, asked>>
          \/ /\ status = "attached" /\ UNCHANGED <<nextOutputStates, changedOutputs>>
             /\ asked' = [asked EXCEPT ![user[u].index] = user[u].value]
             /\ IF changedOutputs[user[u].index]
                THEN nextOutputStates[user[u].index] = user[u].value
                ELSE outputStates[user[u].index] = user[u].value
          \/ /\ status = "attached" /\ user'[u].pc = "signal"
             /\ changedOutputs' = [changedOutputs EXCEPT ![user[u].index] = TRUE]
             /\ nextOutputStates' = [nextOutputStates EXCEPT ![user[u].index] = user[u].value]
             /\ asked' = [asked EXCEPT ![user[u].index] = user[u].value]
      BY <2>1 DEF QueueOutput, Move, Shapes
    <3>2. user'[u].pc = "signal" => Waiting'
      BY DEF Waiting
    <3> QED
      BY <1>1, <1>2, <3>1, <3>2 DEF Accepted, Domains
  <2>2. CASE ~QueueOutput(u)
    <3>1. UNCHANGED <<nextOutputStates, changedOutputs, asked>>
      BY <2>2 DEF Call, UserStep, TakeWritelock, AwaitWritten, AssignRatiometric,
        AssignRate, ResetSum, SignalWriter, FireOutput, SetMode, SetTrigger, outputVars
    <3> QED
      BY <1>1, <1>2, <3>1 DEF Accepted
  <2> QED
    BY <2>1, <2>2
<1>8. Delivered'
  BY <1>1, <1>3 DEF Delivered
<1>9. RatesDelivered' /\ ModeDelivered'
  BY <1>1, <1>2, <1>3 DEF RatesDelivered, ModeDelivered, sentRates
<1>10. ModeKnown'
  <2> SUFFICES ASSUME fullStateEcho PROVE ModeKnown'
    BY <1>1 DEF ModeKnown
  <2>1. user'[u].op = "ratiometric" => Known(ratiometricEcho) /\ user'[u].value \in BOOLEAN
    <3>1. CASE Call(u)
      BY <3>1 DEF Call, Shapes
    <3>2. CASE UserStep(u)
      <4>1. \/ user'[u] = idle
            \/ user'[u].op = user[u].op /\ user'[u].value = user[u].value
        BY <3>2 DEF UserStep, TakeWritelock, QueueOutput, AwaitWritten, AssignRatiometric,
          AssignRate, ResetSum, SignalWriter, FireOutput, SetMode, SetTrigger, Move, Return,
          Shapes
      <4> QED
        BY <4>1 DEF ModeKnown, idle
    <3> QED
      BY <3>1, <3>2
  <2>2. \/ ratiometric' = ratiometric
        \/ Known(ratiometricEcho) /\ ratiometric' \in BOOLEAN
    <3>1. CASE AssignRatiometric(u)
      BY <3>1 DEF AssignRatiometric, ModeKnown, Domains
    <3>2. CASE ~AssignRatiometric(u)
      BY <3>2 DEF Call, UserStep, TakeWritelock, QueueOutput, AwaitWritten, AssignRate,
        ResetSum, SignalWriter, FireOutput, SetMode, SetTrigger
    <3> QED
      BY <3>1, <3>2
  <2> QED
    BY <1>1, <1>3, <1>5, <2>1, <2>2 DEF ModeKnown, State, Known
<1> QED
  BY <1>6, <1>7, <1>8, <1>9, <1>10

LEMMA ConfiguredInductive ==
  ASSUME Patient
  PROVE  CInv /\ [Next]_vars => CInv'
<1> SUFFICES ASSUME CInv, [Next]_vars PROVE CInv'
  OBVIOUS
<1>1. IInv'
  BY Inductive DEF CInv
<1>2. CASE UNCHANGED vars
  <2>1. UNCHANGED <<status, fullStateEcho, ratiometric, ratiometricEcho, outputStates,
                    nextOutputStates, changedOutputs, dataRate, writeAvailable, central, reader,
                    writer, user, device, asked>>
    BY <1>2 DEF vars, fixed, echoVars, outputVars, rateVars, eventVars
  <2>2. (InHand' <=> InHand) /\ (Sending' <=> Sending) /\ (Waiting' <=> Waiting)
    BY <2>1 DEF InHand, Sending, Waiting
  <2>3. Domains' /\ Accepted' /\ Delivered'
    BY <2>1, <2>2 DEF CInv, Domains, Accepted, Delivered
  <2>4. RatesDelivered' /\ ModeKnown' /\ ModeDelivered'
    BY <2>1, <2>2 DEF CInv, RatesDelivered, ModeKnown, ModeDelivered, sentRates
  <2> QED
    BY <1>1, <2>3, <2>4 DEF CInv
<1>3. CASE Next
  <2>1. Domains' /\ Accepted' /\ Delivered' /\ RatesDelivered' /\ ModeKnown' /\ ModeDelivered'
    BY <1>3, CentralConfigured, ReaderConfigured, WriterConfigured, UserConfigured DEF Next
  <2> QED
    BY <1>1, <2>1 DEF CInv
<1> QED
  BY <1>2, <1>3

\* getPacket combines what all users set into one packet: once the write thread
\* has nothing to do the device has the outputs last accepted, the ratiometric
\* mode and every rate, whichever setter set which of its two events.
THEOREM ConfiguredCorrect ==
  ASSUME Patient
  PROVE  Spec => []DeviceConfigured
<1>1. CInv => DeviceConfigured
  <2> SUFFICES ASSUME CInv, writer.pc = "loop", ~writeAvailable,
                      \A u \in Users : user[u].pc \notin {"reset", "signal"}
               PROVE  /\ \A o \in Outputs : Known(asked[o]) => device.outputs[o] = asked[o]
                      /\ fullStateEcho /\ Known(ratiometric)
                         => device.rate = sentRates /\ device.ratiometric = ratiometric
    BY DEF DeviceConfigured
  <2>1. ~Waiting
    BY DEF Waiting
  <2> QED
    BY <2>1 DEF CInv, Accepted, Delivered, RatesDelivered, ModeDelivered
<1> QED
  BY <1>1, ConfiguredBegins, ConfiguredInductive, PTL DEF Spec

-----------------------------------------------------------------------------
\* A packet has a sample of every sensor whose rate is a rate of the device.
LEMMA RateSamples ==
  ASSUME NEW rate \in DataRateMax .. InterruptRate
  PROVE  InterruptRate \div rate \in 1 .. (InterruptRate \div DataRateMax)
<1> DEFINE k == InterruptRate \div rate
           n == InterruptRate \div DataRateMax
<1>1. /\ InterruptRate \in Nat /\ InterruptRate > 0 /\ rate \in Nat /\ rate > 0
      /\ DataRateMax \in Nat /\ DataRateMax > 0 /\ DataRateMax =< rate /\ rate =< InterruptRate
  BY RateAssumption
<1>2. k \in Int /\ n \in Int /\ k >= 1 /\ k * rate =< InterruptRate
  BY <1>1
<1>3. k * DataRateMax =< k * rate
  BY <1>1, <1>2
<1>4. k * DataRateMax =< InterruptRate
  BY <1>1, <1>2, <1>3
<1>5. InterruptRate < (n + 1) * DataRateMax
  BY <1>1
<1>6. k < n + 1
  <2> SUFFICES ASSUME k >= n + 1 PROVE FALSE
    BY <1>2
  <2>1. k * DataRateMax >= (n + 1) * DataRateMax
    BY <1>1, <1>2
  <2> QED
    BY <1>1, <1>2, <1>4, <1>5, <2>1
<1> QED
  BY <1>2, <1>6

LEMMA FirstSamples ==
  ASSUME NEW S, NEW n \in Nat, NEW s \in [1 .. n -> S], NEW k \in 0 .. n
  PROVE  SubSeq(s, 1, k) = <<>> <=> k = 0
<1>1. s \in Seq(S) /\ Len(s) = n
  OBVIOUS
<1>2. Len(SubSeq(s, 1, k)) = k /\ SubSeq(s, 1, k) \in Seq(S)
  BY <1>1, SubSeqProperties
<1> QED
  BY <1>2

LEMMA SampledStep ==
  ASSUME CInv, Sampled, [Next]_vars
  PROVE  Sampled'
<1> USE DEF CInv, IInv
<1>1. ASSUME UNCHANGED <<fullStateEcho, script, dataRate, reader, user, sensorMode>>,
             \A i \in Sensors : device'.rate[i] \in DataRateMax .. InterruptRate,
             Sending' => \A i \in Sensors : writer'.packet.rate[i] \in DataRateMax .. InterruptRate
      PROVE  Sampled'
  BY <1>1 DEF Sampled, InHand
<1>2. CASE InitAfterOpen
  <2>1. /\ UNCHANGED <<fullStateEcho, script, dataRate, reader, user, device>>
        /\ writer' = [writer EXCEPT !.pc = "loop"]
    BY <1>2 DEF InitAfterOpen, fixed, rateVars
  <2>2. \A i \in Sensors \ script.sampled : sensorMode'[i] = Unknown
    <3>1. \/ sensorMode' = sensorMode
          \/ sensorMode' = [i \in Sensors |-> IF i \in script.sampled THEN device.measured
                                              ELSE Unknown]
      BY <1>2 DEF InitAfterOpen, sensorVars
    <3> QED
      BY <3>1 DEF Sampled
  <2> QED
    BY <2>1, <2>2 DEF Sampled, InHand, Sending, Domains
<1>3. CASE EventsAfterOpen \/ Detach
  <2>1. /\ UNCHANGED <<fullStateEcho, script, dataRate, writer, user, device, sensorMode>>
        /\ reader' = reader \/ (reader' = [reader EXCEPT !.pc = "read"])
    BY <1>3 DEF EventsAfterOpen, Detach, fixed, rateVars, sensorVars
  <2>2. reader'.packet = reader.packet /\ (InHand' => InHand)
    BY <2>1 DEF Shapes, InHand
  <2> QED
    BY <2>1, <2>2 DEF Sampled, Sending
<1>4. CASE ReaderStep
  <2>1. /\ UNCHANGED <<fullStateEcho, script, dataRate, writer, user>>
        /\ device'.rate = device.rate
    BY <1>4, ReaderFrame
  <2>2. ASSUME \A i \in Sensors \ script.sampled : sensorMode'[i] = Unknown,
               InHand' => reader'.packet = reader.packet /\ InHand
        PROVE  Sampled'
    BY <2>1, <2>2 DEF Sampled, Sending
  <2>3. CASE ReadPacket
    <3>1. PICK signal \in [1 .. InterruptRate \div DataRateMax -> script.values] :
            reader'.packet = IF fullStateEcho
                             THEN [echo |-> device.ratiometric, outputs |-> device.outputs,
                                   samples |-> [i \in Sensors |-> SubSeq(signal, 1, Samples(i))],
                                   mode |-> device.measured]
                             ELSE noPacket
      BY <2>3 DEF ReadPacket, Shapes
    <3>2. \A i \in Sensors : i \in script.sampled => Samples(i) \in 1 .. (InterruptRate \div DataRateMax)
      BY RateSamples DEF Sampled, Samples
    <3>3. InterruptRate \div DataRateMax \in Nat
      BY RateAssumption
    <3>4. \A i \in Sensors \ script.sampled : Samples(i) = 0
      BY DEF Samples
    <3>5. \A i \in Sensors : SubSeq(signal, 1, Samples(i)) = <<>> <=> i \notin script.sampled
      BY <3>2, <3>3, <3>4, FirstSamples
    <3>6. \A i \in Sensors : noPacket.samples[i] = <<>>
      BY DEF noPacket
    <3>7. UNCHANGED sensorMode
      BY <2>3 DEF ReadPacket, sensorVars
    <3>8. \A i \in Sensors :
            IF fullStateEcho
            THEN reader'.packet.samples[i] = <<>> <=> i \notin script.sampled
            ELSE reader'.packet.samples[i] = <<>>
      BY <3>1, <3>5, <3>6
    <3>9. \A i \in Sensors : device'.rate[i] \in DataRateMax .. InterruptRate
      BY <2>1 DEF Sampled
    <3> QED
      BY <2>1, <3>7, <3>8, <3>9 DEF Sampled, Sending
  <2>4. CASE OutputEvents
    <3>1. UNCHANGED sensorMode /\ ~InHand'
      BY <2>4 DEF OutputEvents, sensorVars, noReader, InHand
    <3> QED
      BY <2>2, <3>1 DEF Sampled
  <2>5. CASE StoreValues
    <3>1. InHand /\ reader'.packet = reader.packet
      BY <2>5 DEF StoreValues, To, At, InHand, Shapes
    <3>2. \A i \in Sensors \ script.sampled : sensorMode'[i] = Unknown
      BY <2>5, <3>1 DEF StoreValues, Sampled
    <3> QED
      BY <2>2, <3>1, <3>2
  <2>6. CASE ~ReadPacket /\ ~OutputEvents /\ ~StoreValues
    <3>1. sensorMode' = sensorMode /\ reader'.packet = reader.packet /\ InHand
      BY <1>4, <2>6, ReaderPacket DEF TestRatiometric, AdoptRatiometric, DecrementSwitching,
        ShowEcho, sensorVars
    <3> QED
      BY <2>2, <3>1 DEF Sampled
  <2> QED
    BY <2>3, <2>4, <2>5, <2>6
<1>5. CASE WriterStep
  <2>1. UNCHANGED <<fullStateEcho, script, dataRate, reader, user, sensorMode>>
    BY <1>5 DEF WriterStep, WriterWoken, GetPacket, Fill, Transfer, SignalWritten, notWriter,
      fixed, rateVars, sensorVars
  <2>2. \A i \in Sensors : sentRates[i] \in DataRateMax .. InterruptRate
    BY RateAssumption DEF Sampled, sentRates, Lesser
  <2>3. CASE WriterWoken \/ SignalWritten
    <3>1. ~Sending' /\ device' = device
      BY <2>3 DEF WriterWoken, SignalWritten, Sending, Domains
    <3> QED
      BY <1>1, <2>1, <3>1 DEF Sampled
  <2>4. CASE GetPacket
    <3>1. device' = device /\ writer'.packet.rate = sentRates
      BY <2>4 DEF GetPacket, Fill
    <3> QED
      BY <1>1, <2>1, <2>2, <3>1 DEF Sampled
  <2>5. CASE Transfer
    <3>1. ~Sending' /\ Sending
      BY <2>5 DEF Transfer, Sending
    <3>2. device' = device \/ device'.rate = writer.packet.rate
      BY <2>5 DEF Transfer, Domains
    <3> QED
      BY <1>1, <2>1, <3>1, <3>2 DEF Sampled
  <2> QED
    BY <1>5, <2>3, <2>4, <2>5 DEF WriterStep
<1>6. ASSUME NEW u \in Users, Call(u) \/ UserStep(u) PROVE Sampled'
  <2>1. UNCHANGED <<fullStateEcho, script, reader, writer, device, sensorMode>>
    BY <1>6 DEF Call, UserStep, TakeWritelock, QueueOutput, AwaitWritten, AssignRatiometric,
      AssignRate, ResetSum, SignalWriter, FireOutput, SetMode, SetTrigger, notUser, fixed,
      sensorVars
  <2>2. \/ dataRate' = dataRate
        \/ /\ dataRate' = [dataRate EXCEPT ![user[u].index] = user[u].value]
           /\ user[u].op = "rate"
    <3>1. CASE AssignRate(u)
      BY <3>1 DEF AssignRate, Domains
    <3>2. CASE ~AssignRate(u)
      BY <1>6, <3>2 DEF Call, UserStep, TakeWritelock, QueueOutput, AwaitWritten,
        AssignRatiometric, ResetSum, SignalWriter, FireOutput, SetMode, SetTrigger, rateVars
    <3> QED
      BY <3>1, <3>2
  <2>3. /\ DOMAIN dataRate' = Sensors
        /\ \A i \in Sensors : DataRateMax =< dataRate'[i] /\ dataRate'[i] \in Int
    BY <2>2 DEF Sampled
  <2>4. /\ user'[u].op = "rate" => user'[u].value \in Int /\ DataRateMax =< user'[u].value
        /\ \A v \in Users \ {u} : user'[v] = user[v]
    <3>1. CASE Call(u)
      BY <3>1 DEF Call, Shapes, ValidRate
    <3>2. CASE UserStep(u)
      <4>1. /\ \/ user'[u] = idle
               \/ user'[u].op = user[u].op /\ user'[u].value = user[u].value
            /\ \A v \in Users \ {u} : user'[v] = user[v]
        BY <3>2 DEF UserStep, TakeWritelock, QueueOutput, AwaitWritten, AssignRatiometric,
          AssignRate, ResetSum, SignalWriter, FireOutput, SetMode, SetTrigger, Move, Return,
          Shapes
      <4> QED
        BY <4>1 DEF Sampled, idle
    <3> QED
      BY <1>6, <3>1, <3>2
  <2> QED
    BY <2>1, <2>3, <2>4 DEF Sampled, InHand, Sending
<1>7. CASE UNCHANGED vars
  BY <1>7 DEF vars, fixed, rateVars, sensorVars, Sampled, InHand, Sending
<1> QED
  BY <1>2, <1>3, <1>4, <1>5, <1>6, <1>7 DEF Next

-----------------------------------------------------------------------------
(* The switch from one ratiometric mode to another, actor by actor.        *)

LEMMA CentralSwitches ==
  ASSUME CInv, Sampled, Switches, fullStateEcho, InitAfterOpen \/ EventsAfterOpen \/ Detach
  PROVE  Switches'
<1> USE DEF Switches
<1>1. CASE InitAfterOpen
  <2>1. /\ UNCHANGED <<script, ratiometricSwitching, reader, user, device>>
        /\ central = "init" /\ central' = "events"
        /\ writer' = [writer EXCEPT !.pc = "loop"]
    BY <1>1 DEF InitAfterOpen, fixed
  <2>2. reader.pc = "none" /\ ~Known(ratiometricEcho) /\ ~InHand' /\ ~Sending'
    BY <2>1 DEF CInv, IInv, Starting, Fresh, InHand, Sending, Domains
  <2>3. \/ UNCHANGED <<ratiometric, ratiometricEcho, sensorMode>>
        \/ /\ ratiometric' = device.ratiometric /\ ratiometricEcho' = device.ratiometric
           /\ \A i \in Sensors : sensorMode'[i] \in {Unknown, device.measured}
    BY <1>1 DEF InitAfterOpen, sensorVars
  <2>4. device.ratiometric = TRUE /\ \A u \in Users : user[u].op # "ratiometric"
    BY <2>2 DEF CInv, ModeKnown
  <2>5. CASE UNCHANGED <<ratiometric, ratiometricEcho, sensorMode>>
    BY <2>1, <2>2, <2>4, <2>5 DEF Switcher, Fresh, Steady, Switching
  <2>6. CASE /\ ratiometric' = device.ratiometric /\ ratiometricEcho' = device.ratiometric
             /\ \A i \in Sensors : sensorMode'[i] \in {Unknown, device.measured}
    BY <2>1, <2>2, <2>4, <2>6 DEF Switcher, Fresh, Steady, Switching, Known
  <2> QED
    BY <2>3, <2>5, <2>6
<1>2. CASE EventsAfterOpen \/ Detach
  <2>1. /\ UNCHANGED <<script, echoVars, sensorMode, writer, user, device>>
        /\ central' = central \/ central' = "done"
        /\ reader' = reader \/ (reader' = [reader EXCEPT !.pc = "read"] /\ reader.pc = "none")
    BY <1>2 DEF EventsAfterOpen, Detach, fixed, sensorVars, CInv, IInv, Starting
  <2>2. /\ reader'.packet = reader.packet /\ (InHand' <=> InHand) /\ (Sending' <=> Sending)
        /\ reader'.loaded = reader.loaded
        /\ reader'.pc = reader.pc \/ (reader'.pc = "read" /\ reader.pc = "none")
    BY <2>1 DEF CInv, IInv, Shapes, InHand, Sending
  <2> QED
    BY <2>1, <2>2 DEF Switcher, Fresh, Steady, Switching, InHand, echoVars
<1> QED
  BY <1>1, <1>2

\* A packet comes in.
LEMMA ReadSwitches ==
  ASSUME CInv, Switches, fullStateEcho, ReadPacket
  PROVE  Switches'
<1>1. /\ UNCHANGED <<script, echoVars, sensorMode, writer, user, central>>
      /\ reader.pc = "read" /\ reader'.pc = "echo"
      /\ reader'.packet.echo = device.ratiometric /\ reader'.packet.mode = device.measured
      /\ device' = [device EXCEPT !.measured = device.ratiometric]
  BY DEF ReadPacket, CInv, IInv, Shapes, notReader, fixed, sensorVars, At
<1>2. ~InHand /\ InHand' /\ (Sending' <=> Sending)
  BY <1>1 DEF InHand, Sending
<1>3. /\ device'.measured = device.ratiometric /\ device'.ratiometric = device.ratiometric
      /\ device.ratiometric \in BOOLEAN /\ ratiometric \in State /\ ratiometricEcho \in State
      /\ ~Known(ratiometricEcho) => device.ratiometric = TRUE
      /\ Known(ratiometricEcho) => Known(ratiometric)
  BY <1>1 DEF CInv, Domains, ModeKnown
<1>4. Switcher' /\ Fresh' /\ Steady'
  BY <1>1, <1>2, <1>3 DEF Switches, Switcher, Fresh, Steady, echoVars
<1>5. Switching'
  BY <1>1, <1>2, <1>3 DEF Switches, Switching, State, Known, echoVars
<1> QED
  BY <1>4, <1>5 DEF Switches

\* The mode in the packet is compared with the one last set.
LEMMA TestSwitches ==
  ASSUME CInv, Switches, fullStateEcho, TestRatiometric
  PROVE  Switches'
<1>1. /\ UNCHANGED <<script, echoVars, sensorMode, writer, user, central, device>>
      /\ reader.pc = "echo" /\ reader'.packet = reader.packet
      /\ \/ reader'.pc = "adopt" /\ ~Known(ratiometric)
         \/ /\ reader'.pc = "decrement" /\ reader'.loaded = ratiometricSwitching
            /\ ratiometricSwitching > 0 /\ reader.packet.echo = ratiometric
         \/ /\ reader'.pc = "echoed" /\ Known(ratiometric)
            /\ ~(ratiometricSwitching > 0 /\ reader.packet.echo = ratiometric)
  BY DEF TestRatiometric, CInv, IInv, Shapes, notReader, fixed, sensorVars, At
<1>2. InHand /\ InHand' /\ (Sending' <=> Sending)
  BY <1>1 DEF InHand, Sending
<1>3. Known(ratiometricEcho) => Known(ratiometric)
  BY DEF CInv, ModeKnown
<1>4. Switcher'
  BY <1>1 DEF Switches, Switcher, echoVars
<1>5. ratiometricSwitching = 0 => reader'.pc # "decrement"
  BY <1>1
<1>6. Fresh'
  BY <1>1, <1>2, <1>5 DEF Switches, Fresh, echoVars
<1>7. Steady'
  BY <1>1, <1>2, <1>5 DEF Switches, Steady, echoVars
<1>8. Switching'
  BY <1>1, <1>2, <1>3 DEF Switches, Switching, echoVars
<1> QED
  BY <1>4, <1>6, <1>7, <1>8 DEF Switches

LEMMA AdoptSwitches ==
  ASSUME CInv, Switches, fullStateEcho, AdoptRatiometric
  PROVE  Switches'
<1>1. /\ UNCHANGED <<script, ratiometricEcho, ratiometricSwitching, sensorMode, writer, user,
                     central, device>>
      /\ reader.pc = "adopt" /\ reader'.pc = "echo" /\ reader'.packet = reader.packet
  BY DEF AdoptRatiometric, CInv, IInv, Shapes, notReader, fixed, sensorVars, At, To
<1>2. ~Known(ratiometricEcho) /\ \A u \in Users : user[u].op # "ratiometric"
  BY <1>1 DEF CInv, ModeKnown
<1>3. InHand
  BY <1>1 DEF InHand
<1> QED
  BY <1>1, <1>2, <1>3 DEF Switches, Switcher, Fresh, Steady, Switching

LEMMA DecrementSwitches ==
  ASSUME CInv, Switches, fullStateEcho, DecrementSwitching
  PROVE  Switches'
<1>1. /\ UNCHANGED <<script, ratiometric, ratiometricEcho, sensorMode, writer, user, central,
                     device>>
      /\ reader.pc = "decrement" /\ reader'.pc = "echoed" /\ reader'.packet = reader.packet
      /\ ratiometricSwitching' = reader.loaded - 1
  BY DEF DecrementSwitching, CInv, IInv, Shapes, notReader, fixed, sensorVars, At
<1>2. InHand /\ InHand' /\ (Sending' <=> Sending)
  BY <1>1 DEF InHand, Sending
<1>3. Known(ratiometricEcho) /\ ratiometric # ratiometricEcho
  BY <1>1 DEF Switches, Fresh, Steady
<1>4. Switcher' /\ Fresh' /\ Steady'
  BY <1>1, <1>3 DEF Switches, Switcher, Fresh, Steady
<1>5. Switching'
  BY <1>1, <1>2, <1>3 DEF Switches, Switching
<1> QED
  BY <1>4, <1>5 DEF Switches

\* The mode is shown, for the first time or because the switch is over.
LEMMA ShowSwitches ==
  ASSUME CInv, Sampled, Switches, fullStateEcho, ShowEcho
  PROVE  Switches'
<1>1. /\ UNCHANGED <<script, ratiometric, ratiometricSwitching, sensorMode, writer, user,
                     central, device>>
      /\ reader.pc = "echoed" /\ reader'.pc = "store" /\ reader'.packet = reader.packet
      /\ ratiometricEcho' = IF ratiometricSwitching = 0 THEN reader.packet.echo
                                                        ELSE ratiometricEcho
      /\ central # "init"
  BY DEF ShowEcho, CInv, IInv, Shapes, Starting, notReader, fixed, sensorVars, At, To
<1>2. InHand /\ InHand' /\ (Sending' <=> Sending)
  BY <1>1 DEF InHand, Sending
<1>3. CASE ~Known(ratiometricEcho)
  <2>1. /\ ratiometricSwitching = 0 /\ device.measured = TRUE /\ reader.packet.mode = TRUE
        /\ \A i \in Sensors : sensorMode[i] \in {Unknown, TRUE}
    BY <1>2, <1>3 DEF Switches, Fresh
  <2>2. /\ reader.packet.echo = TRUE /\ ratiometric = TRUE /\ device.ratiometric = TRUE
        /\ Sending => writer.packet.ratiometric = TRUE
        /\ \A u \in Users : user[u].op # "ratiometric"
    BY <1>1, <1>2, <1>3 DEF CInv, ModeKnown, Known
  <2> QED
    BY <1>1, <1>2, <2>1, <2>2 DEF Switches, Switcher, Fresh, Steady, Switching, Known
<1>4. CASE Known(ratiometricEcho) /\ ratiometric = ratiometricEcho
  <2>1. ratiometricEcho' = ratiometricEcho
    BY <1>1, <1>2, <1>4 DEF Switches, Steady
  <2> QED
    BY <1>1, <1>2, <1>4, <2>1 DEF Switches, Switcher, Fresh, Steady, Switching
<1>5. CASE Known(ratiometricEcho) /\ ratiometric # ratiometricEcho /\ ratiometricSwitching # 0
  BY <1>1, <1>2, <1>5 DEF Switches, Switcher, Fresh, Steady, Switching
<1>6. CASE Known(ratiometricEcho) /\ ratiometric # ratiometricEcho /\ ratiometricSwitching = 0
  <2>1. /\ reader.packet.echo = ratiometric /\ reader.packet.mode = ratiometric
        /\ device.measured = ratiometric /\ device.ratiometric = ratiometric
        /\ Sending => writer.packet.ratiometric = ratiometric
    BY <1>2, <1>6 DEF Switches, Switching
  <2>2. /\ ratiometricEcho' = ratiometric /\ Known(ratiometric)
        /\ \A u \in Users : user[u].op = "ratiometric" =>
             user[u].pc \notin {"lock", "ratiometric"}
    BY <1>1, <1>6, <2>1 DEF Switches, Switcher, CInv, ModeKnown
  <2>3. \A i \in Sensors : sensorMode[i] = Unknown \/ reader'.packet.samples[i] # <<>>
    BY <1>1, <1>2 DEF Sampled
  <2> QED
    BY <1>1, <1>2, <1>6, <2>1, <2>2, <2>3 DEF Switches, Switcher, Fresh, Steady, Switching
<1> QED
  BY <1>3, <1>4, <1>5, <1>6

LEMMA StoreSwitches ==
  ASSUME CInv, Switches, fullStateEcho, StoreValues
  PROVE  Switches'
<1> DEFINE stored == IF ratiometricSwitching = 0
                     THEN {i \in Sensors : reader.packet.samples[i] # <<>>} ELSE {}
<1>1. /\ UNCHANGED <<script, echoVars, writer, user, central, device>>
      /\ reader.pc = "store" /\ reader'.pc = "events" /\ reader'.packet = reader.packet
      /\ \A i \in Sensors : sensorMode'[i] = IF i \in stored THEN reader.packet.mode
                                                             ELSE sensorMode[i]
  BY DEF StoreValues, CInv, IInv, Shapes, notReader, fixed, At, To
<1>2. InHand /\ InHand' /\ (Sending' <=> Sending)
  BY <1>1 DEF InHand, Sending
<1>3. Switcher' /\ Fresh' /\ Switching'
  BY <1>1, <1>2 DEF Switches, Switcher, Fresh, Switching, echoVars
<1>4. Steady'
  BY <1>1, <1>2 DEF Switches, Steady, echoVars
<1> QED
  BY <1>3, <1>4 DEF Switches

LEMMA ReaderSwitches ==
  ASSUME CInv, Sampled, Switches, fullStateEcho, ReaderStep
  PROVE  Switches'
<1>1. UNCHANGED <<script, writer, central, user>>
  BY ReaderFrame DEF CInv, IInv
<1>2. Sending' <=> Sending
  BY <1>1 DEF Sending
<1>3. CASE OutputEvents
  <2>1. /\ UNCHANGED <<echoVars, sensorMode, device>> /\ reader.pc = "sensor"
        /\ reader'.pc = "read"
    BY <1>3 DEF OutputEvents, At, noReader, sensorVars
  <2>2. InHand /\ ~InHand'
    BY <2>1 DEF InHand
  <2> QED
    BY <1>1, <1>2, <2>1, <2>2 DEF Switches, Switcher, Fresh, Steady, Switching, echoVars
<1>4. ASSUME reader'.packet = reader.packet, InHand, InHand',
             {reader.pc, reader'.pc} \cap {"echo", "adopt", "decrement", "echoed", "store"} = {},
             UNCHANGED <<echoVars, sensorMode, device>>
      PROVE  Switches'
  <2>1. /\ reader.pc \notin {"echo", "decrement", "echoed", "store"}
        /\ reader'.pc \notin {"echo", "decrement", "echoed", "store"}
    BY <1>4
  <2> QED
    BY <1>1, <1>2, <1>4, <2>1 DEF Switches, Switcher, Fresh, Steady, Switching, echoVars
<1> QED
  BY <1>3, <1>4, ReaderPacket, ReadSwitches, TestSwitches, AdoptSwitches, DecrementSwitches,
    ShowSwitches, StoreSwitches DEF CInv, IInv

LEMMA WriterSwitches ==
  ASSUME CInv, Switches, fullStateEcho, WriterStep
  PROVE  Switches'
<1>1. UNCHANGED <<script, ratiometricEcho, ratiometricSwitching, sensorMode, central, reader,
                  user>>
  BY DEF WriterStep, WriterWoken, GetPacket, Fill, Transfer, SignalWritten, notWriter, fixed,
    sensorVars
<1>2. InHand' <=> InHand
  BY <1>1 DEF InHand
<1>3. CASE WriterWoken \/ SignalWritten
  <2>1. UNCHANGED <<ratiometric, device>> /\ ~Sending'
    BY <1>3 DEF WriterWoken, SignalWritten, Sending, CInv, Domains
  <2> QED
    BY <1>1, <1>2, <2>1 DEF Switches, Switcher, Fresh, Steady, Switching
<1>4. CASE GetPacket
  <2>1. /\ UNCHANGED device /\ writer'.packet.ratiometric = ratiometric'
        /\ \/ ratiometric' = ratiometric
           \/ ~Known(ratiometricEcho) /\ \A u \in Users : user[u].op # "ratiometric"
    BY <1>4 DEF GetPacket, Fill, CInv, ModeKnown
  <2> QED
    BY <1>1, <1>2, <2>1 DEF Switches, Switcher, Fresh, Steady, Switching
<1>5. CASE Transfer
  <2>1. /\ UNCHANGED ratiometric /\ Sending /\ ~Sending'
        /\ device'.measured = device.measured
        /\ device'.ratiometric \in {device.ratiometric, writer.packet.ratiometric}
    <3>1. \/ device' = device
          \/ device' = [device EXCEPT
                          !.outputs = writer.packet.outputs, !.rate = writer.packet.rate,
                          !.ratiometric = IF fullStateEcho THEN writer.packet.ratiometric
                                                           ELSE @]
      BY <1>5 DEF Transfer
    <3>2. UNCHANGED ratiometric /\ Sending /\ ~Sending'
      BY <1>5 DEF Transfer, Sending
    <3>3. /\ device'.measured = device.measured
          /\ device'.ratiometric \in {device.ratiometric, writer.packet.ratiometric}
      BY <3>1 DEF CInv, Domains
    <3> QED
      BY <3>2, <3>3
  <2> QED
    BY <1>1, <1>2, <2>1 DEF Switches, Switcher, Fresh, Steady, Switching
<1> QED
  BY <1>3, <1>4, <1>5 DEF WriterStep

LEMMA UserSwitches ==
  ASSUME CInv, Switches, fullStateEcho, Patient, OneSwitcher,
         NEW u \in Users, Call(u) \/ UserStep(u)
  PROVE  Switches'
<1>1. UNCHANGED <<script, ratiometricEcho, sensorMode, central, reader, writer, device>>
  BY DEF Call, UserStep, TakeWritelock, QueueOutput, AwaitWritten, AssignRatiometric,
    AssignRate, ResetSum, SignalWriter, FireOutput, SetMode, SetTrigger, notUser, fixed,
    sensorVars
<1>2. (InHand' <=> InHand) /\ (Sending' <=> Sending)
  BY <1>1 DEF InHand, Sending
<1>3. CASE Call(u)
  <2>1. /\ UNCHANGED <<ratiometric, ratiometricSwitching>>
        /\ \A v \in Users \ {u} : user'[v] = user[v]
        /\ user'[u].op = "ratiometric" =>
             /\ "ratiometric" \in script.calls[u]
             /\ ratiometric = ratiometricEcho /\ user'[u].value # ratiometric
    BY <1>3 DEF Call, CInv, IInv, Shapes
  <2> QED
    BY <1>1, <1>2, <2>1 DEF Switches, Switcher, Fresh, Steady, Switching
<1>4. CASE AssignRatiometric(u)
  <2>1. /\ ratiometric' = user[u].value /\ ratiometricSwitching' = 2
        /\ user[u].pc = "ratiometric" /\ user[u].op = "ratiometric"
        /\ user'[u].pc = "signal" /\ user'[u].op = user[u].op
        /\ \A v \in Users \ {u} : user'[v] = user[v]
    BY <1>4 DEF AssignRatiometric, Move, CInv, IInv, Shapes, Domains
  <2>2. /\ Known(ratiometricEcho) /\ ratiometric = ratiometricEcho
        /\ ratiometric' # ratiometricEcho /\ ratiometric' \in BOOLEAN
        /\ ratiometricEcho \in BOOLEAN
    BY <2>1 DEF Switches, Switcher, CInv, ModeKnown, State, Known
  <2>3. \A v \in Users \ {u} : user[v].op # "ratiometric"
    BY <2>1 DEF Switches, Switcher, OneSwitcher
  <2>4. Switcher' /\ Fresh' /\ Steady'
    BY <1>1, <2>1, <2>2, <2>3 DEF Switches, Switcher, Fresh, Steady
  <2>5. Switching'
    BY <1>1, <1>2, <2>1, <2>2 DEF Switches, Steady, Switching
  <2> QED
    BY <2>4, <2>5 DEF Switches
<1>5. CASE UserStep(u) /\ ~AssignRatiometric(u)
  <2>1. UNCHANGED <<ratiometric, ratiometricSwitching>>
    BY <1>5 DEF UserStep, TakeWritelock, QueueOutput, AwaitWritten, AssignRate, ResetSum,
      SignalWriter, FireOutput, SetMode, SetTrigger
  <2>2. \A v \in Users \ {u} : user'[v] = user[v]
    BY <1>5 DEF UserStep, TakeWritelock, QueueOutput, AwaitWritten, AssignRate, ResetSum,
      SignalWriter, FireOutput, SetMode, SetTrigger, Move, Return, CInv, IInv, Shapes
  <2>3. user'[u].op = "ratiometric" =>
          /\ user[u].op = "ratiometric" /\ user'[u].value = user[u].value
          /\ user'[u].pc \in {"lock", "ratiometric"} => user[u].pc \in {"lock", "ratiometric"}
    BY <1>5 DEF UserStep, TakeWritelock, QueueOutput, AwaitWritten, AssignRate, ResetSum,
      SignalWriter, FireOutput, SetMode, SetTrigger, Move, Return, CInv, IInv, Shapes, idle
  <2> QED
    BY <1>1, <1>2, <2>1, <2>2, <2>3 DEF Switches, Switcher, Fresh, Steady, Switching
<1> QED
  BY <1>3, <1>4, <1>5

\* The packets of a device that does not echo hold no mode.
LEMMA NotEchoedStep ==
  ASSUME CInv, NotEchoed, ~fullStateEcho, [Next]_vars
  PROVE  NotEchoed'
<1>1. CASE InitAfterOpen \/ EventsAfterOpen \/ Detach
  BY <1>1 DEF InitAfterOpen, EventsAfterOpen, Detach, NotEchoed, echoVars, CInv, IInv, Shapes
<1>2. CASE ReaderStep
  <2>1. ~TestRatiometric /\ ~AdoptRatiometric /\ ~DecrementSwitching /\ ~ShowEcho
    BY DEF NotEchoed, TestRatiometric, AdoptRatiometric, DecrementSwitching, ShowEcho, At
  <2>2. CASE StoreValues
    BY <2>2 DEF StoreValues, To, NotEchoed, echoVars, CInv, IInv, Shapes
  <2>3. CASE ~StoreValues
    BY <1>2, <2>1, <2>3, ReaderPacket DEF NotEchoed, echoVars, noReader, CInv, IInv
  <2> QED
    BY <2>2, <2>3
<1>3. CASE WriterStep
  BY <1>3 DEF WriterStep, WriterWoken, GetPacket, Fill, Transfer, SignalWritten, notWriter,
    NotEchoed
<1>4. ASSUME NEW u \in Users, Call(u) \/ UserStep(u) PROVE NotEchoed'
  BY <1>4 DEF Call, UserStep, TakeWritelock, QueueOutput, AwaitWritten, AssignRatiometric,
    AssignRate, ResetSum, SignalWriter, FireOutput, SetMode, SetTrigger, notUser, NotEchoed
<1>5. CASE UNCHANGED vars
  BY <1>5 DEF vars, echoVars, NotEchoed
<1> QED
  BY <1>1, <1>2, <1>3, <1>4, <1>5 DEF Next

LEMMA SwitchesInductive ==
  ASSUME Patient, OneSwitcher
  PROVE  CInv /\ MInv /\ [Next]_vars => MInv'
<1> SUFFICES ASSUME CInv, MInv, [Next]_vars PROVE MInv'
  OBVIOUS
<1>1. UNCHANGED fullStateEcho
  <2>1. CASE ReaderStep
    BY <2>1, ReaderFrame DEF CInv, IInv
  <2>2. CASE InitAfterOpen \/ EventsAfterOpen \/ Detach \/ WriterStep
    BY <2>2 DEF InitAfterOpen, EventsAfterOpen, Detach, WriterStep, WriterWoken, GetPacket, Fill,
      Transfer, SignalWritten, notWriter, fixed
  <2>3. ASSUME NEW u \in Users, Call(u) \/ UserStep(u) PROVE UNCHANGED fullStateEcho
    BY <2>3 DEF Call, UserStep, TakeWritelock, QueueOutput, AwaitWritten, AssignRatiometric,
      AssignRate, ResetSum, SignalWriter, FireOutput, SetMode, SetTrigger, notUser, fixed
  <2>4. CASE UNCHANGED vars
    BY <2>4 DEF vars, fixed
  <2> QED
    BY <2>1, <2>2, <2>3, <2>4 DEF Next
<1>2. Sampled'
  BY SampledStep DEF MInv
<1>3. CASE fullStateEcho
  <2>1. Switches
    BY <1>3 DEF MInv
  <2> SUFFICES Switches'
    BY <1>1, <1>2, <1>3 DEF MInv
  <2>2. CASE UNCHANGED vars
    <3>1. UNCHANGED <<script, echoVars, sensorMode, central, reader, writer, user, device>>
      BY <2>2 DEF vars, fixed, sensorVars
    <3>2. (InHand' <=> InHand) /\ (Sending' <=> Sending)
      BY <3>1 DEF InHand, Sending
    <3>3. Switcher' /\ Fresh' /\ Steady'
      BY <2>1, <3>1, <3>2 DEF Switches, Switcher, Fresh, Steady, echoVars
    <3>4. Switching'
      BY <2>1, <3>1, <3>2 DEF Switches, Switching, echoVars
    <3> QED
      BY <3>3, <3>4 DEF Switches
  <2>3. CASE InitAfterOpen \/ EventsAfterOpen \/ Detach
    BY <1>3, <2>1, <2>3, CentralSwitches DEF MInv
  <2>4. CASE ReaderStep
    BY <1>3, <2>1, <2>4, ReaderSwitches DEF MInv
  <2>5. CASE WriterStep
    BY <1>3, <2>1, <2>5, WriterSwitches
  <2>6. ASSUME NEW u \in Users, Call(u) \/ UserStep(u) PROVE Switches'
    BY <1>3, <2>1, <2>6, UserSwitches
  <2> QED
    BY <2>2, <2>3, <2>4, <2>5, <2>6 DEF Next
<1>4. CASE ~fullStateEcho
  BY <1>1, <1>2, <1>4, NotEchoedStep DEF MInv
<1> QED
  BY <1>3, <1>4

LEMMA SwitchesBegin == Init => MInv
<1> SUFFICES ASSUME Init PROVE MInv
  OBVIOUS
<1>1. Sampled
  BY RateAssumption DEF Init, Sampled, Sending, InHand, noReader, idle
<1>2. ~Known(ratiometricEcho) /\ reader.pc = "none"
  BY DEF Init, Known, noReader
<1>3. Switches
  BY <1>2 DEF Init, Switches, Switcher, Fresh, Steady, Switching, InHand, idle
<1> QED
  BY <1>1, <1>2, <1>3 DEF MInv, NotEchoed

\* dataInput skips the packet that a switch of the ratiometric mode cuts in two,
\* and shows a mode with the values measured in it only, as long as one user sets
\* the mode and waits for the last one to be shown: whatever the write thread
\* sends when, and whichever user shares its packets.
THEOREM ShownCorrect ==
  ASSUME Patient, OneSwitcher
  PROVE  Spec => []ShownAsMeasured
<1>1. CInv /\ MInv => ShownAsMeasured
  BY DEF MInv, Switches, Steady, NotEchoed, ShownAsMeasured
<1>2. Init => CInv /\ MInv
  BY ConfiguredBegins, SwitchesBegin
<1>3. CInv /\ MInv /\ [Next]_vars => (CInv /\ MInv)'
  BY ConfiguredInductive, SwitchesInductive
<1> QED
  BY <1>1, <1>2, <1>3, PTL DEF Spec
=============================================================================
