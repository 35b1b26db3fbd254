---------------------------- MODULE InterfaceKit ----------------------------
(***************************************************************************)
(* cphidgetinterfacekit.c: one handle of an interface kit while a device is *)
(* attached to it.                                                          *)
(*                                                                          *)
(* The central thread runs initAfterOpen and eventsAfterOpen; the read      *)
(* thread runs dataInput for each packet, without outputLock but for one    *)
(* assignment; the write thread runs getPacket and sends the result; users  *)
(* call the setters.  Two kinds of device: the 2/2/2 (fullStateEcho), which *)
(* sends its outputs and its ratiometric mode back with the sensor data and *)
(* has data rates, and the 0/8/8 with LCD, whose packets hold inputs only.  *)
(*                                                                          *)
(* All sensors measure one signal.  The digital inputs, which only the read *)
(* thread touches, and the raw values are left out.                         *)
(***************************************************************************)
EXTENDS Integers, Sequences, FiniteSetsExt, SequencesExt

CONSTANTS
  Users,            \* the threads that call the setters
  Sensors, Outputs, \* attr.ifkit.numSensors, numOutputs
  Triggers,         \* the change triggers set; the largest is the one at attach
  Rates,            \* the data rates asked for, valid or not
  InterruptRate,    \* phid->interruptRate
  DataRateMax, DataRateMin,  \* phid->dataRateMax (fastest), dataRateMin
  MaxDataPerPacket, \* phid->maxDataPerPacket
  Scripts,          \* per run: what each user calls, for which sensors and
                    \* with which arguments, the sensors that packets hold
                    \* samples of, the samples, and a bound on the calls
  MaxCount,         \* bound on accumulatorCount, where it is kept
  Patient,          \* another ratiometric mode is set, and only once the one
                    \* set before is shown
  Nobody, Unknown   \* no owner of a lock; PUNK_BOOL and PUNK_INT

ASSUME UnknownAssumption == Unknown \notin Int \cup BOOLEAN
ASSUME SensorsAssumption == Sensors \subseteq Nat
ASSUME RateAssumption == InterruptRate \in Nat \ {0} /\ DataRateMax \in 1 .. InterruptRate

Known(v) == v # Unknown

VARIABLES
  status,              \* the ATTACHED flag: "attaching", "attached", "detached"
  fullStateEcho,
  ratiometric, ratiometricEcho, ratiometricSwitching,
  outputStates, nextOutputStates, changedOutputs, outputEchoStates,
  sensorChangeTrigger, sensorValue, sensorLastValue, eventMode, dataRate,
  accumulator,         \* sensorRawValueAccumulator
  accumulatorCount,    \* sensorRawValueAccumulatorCount
  writelock, outputLock,
  writeAvailable, written,  \* writeAvailableEvent and writtenEvent
  central,             \* the central thread: "init", "events", "done"
  reader, writer,      \* the read thread and the write thread, with their locals
  user,                \* per user, the call under way
  device,              \* the device: outputs, mode, rates; what it measured in
  script, calls,
  told,                \* history: the last output state the handler was called
                       \* with, and the last sensor value, by dataInput
  sensorMode,          \* history: the mode in which sensorValue was measured
  judged,              \* history: sensors whose value the last packet compared
                       \* with the trigger and mode they have now
  asked                \* history: the output states accepted from the users

echoVars   == <<ratiometric, ratiometricEcho, ratiometricSwitching>>
outputVars == <<outputStates, nextOutputStates, changedOutputs>>
sumVars    == <<accumulator, accumulatorCount>>
rateVars   == <<eventMode, dataRate>>
sensorVars == <<sensorValue, sensorLastValue, sensorMode>>
lockVars   == <<writelock, outputLock>>
eventVars  == <<writeAvailable, written>>
fixed      == <<fullStateEcho, script>>
vars == <<status, fixed, echoVars, outputVars, outputEchoStates, sumVars,
          rateVars, sensorVars, sensorChangeTrigger, lockVars, eventVars,
          central, reader, writer, user, device, calls, told, judged, asked>>

noPacket == [echo |-> Unknown, outputs |-> [o \in Outputs |-> Unknown],
             samples |-> [i \in Sensors |-> <<>>], mode |-> Unknown]
noReader == [pc |-> "none", packet |-> noPacket,
             last |-> [o \in Outputs |-> Unknown], todo |-> {}, loaded |-> 0, perEvent |-> 0]
noWrite  == [outputs |-> [o \in Outputs |-> Unknown], ratiometric |-> Unknown,
             rate |-> [i \in Sensors |-> 0]]
idle     == [pc |-> "idle", op |-> "none", index |-> 0, value |-> 0]

Lesser(a, b) == IF a < b THEN a ELSE b
Distance(a, b) == IF a < b THEN b - a ELSE a - b
\* round() of sum / count, for values that are not negative.
Average(sum, count) == (2 * sum + count) \div (2 * count)
Sum(s) == FoldLeft(+, 0, s)

\* The comparison of a new value with the one the handler was told last.
Telling(last, value, trigger) ==
  \/ last = Unknown
  \/ Distance(last, value) >= trigger

\* The samples of a sensor in a packet: as many as its rate allows, or none.
Samples(i) == IF i \in script.sampled THEN InterruptRate \div device.rate[i] ELSE 0

\* The device was left with its outputs on.
Init ==
  /\ status = "attaching" /\ central = "init"
  /\ fullStateEcho \in BOOLEAN
  /\ script \in Scripts
  /\ ratiometric = Unknown /\ ratiometricEcho = Unknown
  /\ ratiometricSwitching = 0
  /\ outputStates = [o \in Outputs |-> Unknown]
  /\ nextOutputStates = outputStates /\ outputEchoStates = outputStates
  /\ changedOutputs = [o \in Outputs |-> FALSE]
  /\ sensorChangeTrigger = [i \in Sensors |-> Max(Triggers)]
  /\ sensorValue = [i \in Sensors |-> Unknown]
  /\ sensorLastValue = sensorValue /\ sensorMode = sensorValue
  /\ eventMode = [i \in Sensors |-> "DATARATE"]
  /\ dataRate = [i \in Sensors |-> InterruptRate]
  /\ accumulator = [i \in Sensors |-> 0] /\ accumulatorCount = accumulator
  /\ writelock = Nobody /\ outputLock = Nobody
  /\ writeAvailable = FALSE /\ written = FALSE
  /\ reader = noReader
  /\ writer = [pc |-> "none", packet |-> noWrite]
  /\ user = [u \in Users |-> idle]
  /\ device = [outputs |-> [o \in Outputs |-> TRUE], ratiometric |-> TRUE,
               rate |-> [i \in Sensors |-> InterruptRate], measured |-> TRUE]
  /\ calls = 0
  /\ told = [outputs |-> outputStates, sensors |-> sensorValue]
  /\ judged = {}
  /\ asked = outputStates

-----------------------------------------------------------------------------
(* The central thread: attachActiveDevice, from fptrInit on.               *)

\* initAfterOpen: reads packets until every sensor has a value, at most four
\* times, and does not look at the result: all reads can fail.  A first packet
\* may hold samples of some sensors only; no event is fired yet, but
\* sensorLastValue is assigned.  A 0/8/8 is not read.
InitAfterOpen ==
  /\ central = "init"
  /\ central' = "events" /\ status' = "attached"
  /\ writer' = [writer EXCEPT !.pc = "loop"]
  /\ \/ UNCHANGED <<ratiometric, ratiometricEcho, outputStates,
                    outputEchoStates, sensorVars>>
     \/ /\ fullStateEcho
        /\ ratiometric' = device.ratiometric
        /\ ratiometricEcho' = device.ratiometric
        /\ outputStates' = device.outputs
        /\ outputEchoStates' = device.outputs
        /\ \E first, last \in script.values, some \in SUBSET script.sampled :
             LET at(i, value) == IF i \in script.sampled THEN value ELSE Unknown
                 kept(i) == i \in some /\ ~Telling(first, last, sensorChangeTrigger[i])
             IN /\ sensorValue' = [i \in Sensors |-> at(i, last)]
                /\ sensorLastValue' =
                     [i \in Sensors |-> at(i, IF kept(i) THEN first ELSE last)]
                /\ sensorMode' = [i \in Sensors |-> at(i, device.measured)]
  /\ UNCHANGED <<fixed, ratiometricSwitching, nextOutputStates, changedOutputs,
                 sumVars, rateVars, sensorChangeTrigger, lockVars, eventVars,
                 reader, user, device, calls, told, judged, asked>>

\* eventsAfterOpen: the handlers are told every value known (sensorValue too,
\* but sensorLastValue may be another one); the read thread is started then.
EventsAfterOpen ==
  /\ central = "events"
  /\ central' = "done"
  /\ told' = IF status = "attached"
             THEN [told EXCEPT !.outputs = outputEchoStates] ELSE told
  /\ reader' = [reader EXCEPT !.pc = "read"]
  /\ UNCHANGED <<status, fixed, echoVars, outputVars, outputEchoStates, sumVars,
                 rateVars, sensorVars, sensorChangeTrigger, lockVars, eventVars,
                 writer, user, device, calls, judged, asked>>

\* The device is unplugged, or the central thread detaches it: the flag goes.
Detach ==
  /\ status = "attached"
  /\ status' = "detached"
  /\ UNCHANGED <<fixed, echoVars, outputVars, outputEchoStates, sumVars,
                 rateVars, sensorVars, sensorChangeTrigger, lockVars, eventVars,
                 central, reader, writer, user, device, calls, told, judged,
                 asked>>

-----------------------------------------------------------------------------
(* The read thread: dataInput.                                             *)

notReader == <<status, fixed, nextOutputStates, changedOutputs, rateVars,
               sensorChangeTrigger, lockVars, eventVars, central, writer, user,
               calls, asked>>

At(pc) == reader.pc = pc
To(pc) == reader' = [reader EXCEPT !.pc = pc]

\* CPhidget_read, and the packet parsed into locals.  The first packet after
\* the mode has changed holds what was measured before.
ReadPacket ==
  /\ At("read") /\ status = "attached"
  /\ \E signal \in [1 .. InterruptRate \div DataRateMax -> script.values] :
       reader' =
         [reader EXCEPT
            !.pc = IF fullStateEcho THEN "echo" ELSE "store",
            !.last = outputEchoStates,
            !.packet = IF fullStateEcho
                       THEN [echo |-> device.ratiometric, outputs |-> device.outputs,
                             samples |-> [i \in Sensors |-> SubSeq(signal, 1, Samples(i))],
                             mode |-> device.measured]
                       ELSE noPacket]
  /\ device' = [device EXCEPT !.measured = device.ratiometric]
  /\ UNCHANGED <<notReader, echoVars, outputStates, outputEchoStates, sensorVars,
                 sumVars, told, judged>>

\* An unknown mode is taken over from the device; the test and the assignment
\* are two steps, and so are those of ratiometricSwitching--: the setter holds
\* outputLock when it assigns them, the read thread does not.
TestRatiometric ==
  /\ At("echo")
  /\ reader' = IF ~Known(ratiometric) THEN [reader EXCEPT !.pc = "adopt"]
               ELSE IF ratiometricSwitching > 0 /\ reader.packet.echo = ratiometric
               THEN [reader EXCEPT !.pc = "decrement", !.loaded = ratiometricSwitching]
               ELSE [reader EXCEPT !.pc = "echoed"]
  /\ UNCHANGED <<notReader, echoVars, outputStates, outputEchoStates, sensorVars,
                 sumVars, device, told, judged>>

AdoptRatiometric ==
  /\ At("adopt")
  /\ ratiometric' = reader.packet.echo
  /\ To("echo")
  /\ UNCHANGED <<notReader, ratiometricEcho, ratiometricSwitching, outputStates,
                 outputEchoStates, sensorVars, sumVars, device, told, judged>>

\* Mutant: the packet after the switch is not skipped.
DecrementToZero ==
  /\ At("decrement")
  /\ ratiometricSwitching' = 0
  /\ reader' = [reader EXCEPT !.pc = "echoed", !.loaded = 0]
  /\ UNCHANGED <<notReader, ratiometric, ratiometricEcho, outputStates,
                 outputEchoStates, sensorVars, sumVars, device, told, judged>>

DecrementSwitching ==
  /\ At("decrement")
  /\ ratiometricSwitching' = reader.loaded - 1
  /\ reader' = [reader EXCEPT !.pc = "echoed", !.loaded = 0]
  /\ UNCHANGED <<notReader, ratiometric, ratiometricEcho, outputStates,
                 outputEchoStates, sensorVars, sumVars, device, told, judged>>

\* The mode is shown once the switch is over.
ShowEcho ==
  /\ At("echoed")
  /\ ratiometricEcho' = IF ratiometricSwitching = 0 THEN reader.packet.echo
                                                    ELSE ratiometricEcho
  /\ To("store")
  /\ UNCHANGED <<notReader, ratiometric, ratiometricSwitching, outputStates,
                 outputEchoStates, sensorVars, sumVars, device, told, judged>>

\* The values are stored unless the mode is being switched; then
\* outputEchoStates and, under outputLock and while unknown, outputStates.
StoreValues ==
  /\ At("store") /\ outputLock = Nobody
  /\ LET samples == reader.packet.samples
         sent    == reader.packet.outputs
         stored  == IF ratiometricSwitching = 0
                    THEN {i \in Sensors : samples[i] # <<>>} ELSE {}
     IN /\ sensorValue' = [i \in Sensors |->
             IF i \in stored THEN Average(Sum(samples[i]), Len(samples[i]))
                             ELSE sensorValue[i]]
        /\ sensorMode' = [i \in Sensors |-> IF i \in stored THEN reader.packet.mode
                                                            ELSE sensorMode[i]]
        /\ judged' = judged \ stored
        /\ outputEchoStates' = [o \in Outputs |-> IF Known(sent[o]) THEN sent[o]
                                                  ELSE outputEchoStates[o]]
        /\ outputStates' = [o \in Outputs |-> IF Known(outputStates[o])
                                              THEN outputStates[o] ELSE sent[o]]
  /\ To("events")
  /\ UNCHANGED <<notReader, echoVars, sensorLastValue, sumVars, device, told>>

\* Sensor events only when the mode is not being switched.
StartEvents ==
  /\ At("events")
  /\ reader' = [reader EXCEPT
                  !.pc = "sensor",
                  !.todo = IF ratiometricSwitching = 0
                           THEN {i \in Sensors : reader.packet.samples[i] # <<>>}
                           ELSE {}]
  /\ UNCHANGED <<notReader, echoVars, outputStates, outputEchoStates, sensorVars,
                 sumVars, device, told, judged>>

current == Min(reader.todo)
NextSensor == reader' = [reader EXCEPT !.pc = "sensor", !.todo = @ \ {current},
                                        !.loaded = 0, !.perEvent = 0]

\* FIRE(SensorChange): the handler is called while the device is attached.
Told(i, value) == IF status = "attached" THEN [told EXCEPT !.sensors[i] = value]
                                         ELSE told

\* EVENTMODE_CHANGETRIGGER, once the value is known.
\* Mutant: the value is remembered although the handler is not called.
AlwaysRemember ==
  /\ At("sensor") /\ reader.todo # {} /\ eventMode[current] = "CHANGETRIGGER"
  /\ LET value == sensorValue[current]
         tell  == Telling(sensorLastValue[current], value, sensorChangeTrigger[current])
     IN /\ told' = IF Known(value) /\ tell THEN Told(current, value) ELSE told
        /\ sensorLastValue' = [sensorLastValue EXCEPT ![current] = value]
  /\ judged' = judged \cup {current}
  /\ NextSensor
  /\ UNCHANGED <<notReader, echoVars, outputStates, outputEchoStates, sensorValue,
                 sensorMode, sumVars, device>>

ChangeEvent ==
  /\ At("sensor") /\ reader.todo # {} /\ eventMode[current] = "CHANGETRIGGER"
  /\ LET value == sensorValue[current]
     IN IF Known(value)
           /\ Telling(sensorLastValue[current], value, sensorChangeTrigger[current])
        THEN /\ told' = Told(current, value)
             /\ sensorLastValue' = [sensorLastValue EXCEPT ![current] = value]
        ELSE UNCHANGED <<told, sensorLastValue>>
  /\ judged' = judged \cup {current}
  /\ NextSensor
  /\ UNCHANGED <<notReader, echoVars, outputStates, outputEchoStates, sensorValue,
                 sensorMode, sumVars, device>>

\* EVENTMODE_DATARATE, case 1: every sample, each after a comparison of the
\* value stored, not of the sample, with the last one.
SampleEvents ==
  /\ At("sensor") /\ reader.todo # {} /\ eventMode[current] = "DATARATE"
  /\ dataRate[current] <= InterruptRate
  /\ LET tell(last, sample) ==
           IF Telling(last, sensorValue[current], sensorChangeTrigger[current])
           THEN sample ELSE last
         last == FoldLeft(tell, sensorLastValue[current],
                          reader.packet.samples[current])
     IN /\ sensorLastValue' = [sensorLastValue EXCEPT ![current] = last]
        /\ told' = IF last = sensorLastValue[current] THEN told ELSE Told(current, last)
  /\ NextSensor
  /\ UNCHANGED <<notReader, echoVars, outputStates, outputEchoStates, sensorValue,
                 sensorMode, sumVars, device, judged>>

\* Case 2: the values of several packets are added up, without a lock; each of
\* the two additions is a load and a store.
LoadSum ==
  /\ At("sensor") /\ reader.todo # {} /\ eventMode[current] = "DATARATE"
  /\ dataRate[current] > InterruptRate
  /\ reader' = [reader EXCEPT !.pc = "storeSum", !.loaded = accumulator[current],
                              !.perEvent = dataRate[current] \div InterruptRate]
  /\ UNCHANGED <<notReader, echoVars, outputStates, outputEchoStates, sensorVars,
                 sumVars, device, told, judged>>

StoreSum ==
  /\ At("storeSum")
  /\ accumulator' = [accumulator EXCEPT ![current] =
                       Lesser(reader.loaded + sensorValue[current],
                              MaxCount * Max(script.values))]
  /\ reader' = [reader EXCEPT !.pc = "loadCount", !.loaded = 0]
  /\ UNCHANGED <<notReader, echoVars, outputStates, outputEchoStates, sensorVars,
                 accumulatorCount, device, told, judged>>

LoadCount ==
  /\ At("loadCount")
  /\ reader' = [reader EXCEPT !.pc = "storeCount", !.loaded = accumulatorCount[current]]
  /\ UNCHANGED <<notReader, echoVars, outputStates, outputEchoStates, sensorVars,
                 sumVars, device, told, judged>>

\* The average is told when the count is the number of packets per event.
StoreCount ==
  /\ At("storeCount")
  /\ LET i     == current
         count == reader.loaded + 1
         value == Average(accumulator[i], count)
         due   == count = reader.perEvent
         tell  == due /\ Telling(sensorLastValue[i], value, sensorChangeTrigger[i])
     IN /\ accumulatorCount' = [accumulatorCount EXCEPT ![i] =
                                  IF due THEN 0 ELSE Lesser(count, MaxCount)]
        /\ accumulator' = IF due THEN [accumulator EXCEPT ![i] = 0] ELSE accumulator
        /\ sensorLastValue' = IF tell THEN [sensorLastValue EXCEPT ![i] = value]
                                      ELSE sensorLastValue
        /\ told' = IF tell THEN Told(i, value) ELSE told
  /\ NextSensor
  /\ UNCHANGED <<notReader, echoVars, outputStates, outputEchoStates, sensorValue,
                 sensorMode, device, judged>>

\* OutputChange for every output whose echo is another one than at the start.
OutputEvents ==
  /\ At("sensor") /\ reader.todo = {}
  /\ told' = IF status = "attached"
             THEN [told EXCEPT !.outputs = [o \in Outputs |->
                     IF outputEchoStates[o] # reader.last[o] THEN outputEchoStates[o]
                                                             ELSE @[o]]]
             ELSE told
  /\ reader' = [noReader EXCEPT !.pc = "read"]
  /\ UNCHANGED <<notReader, echoVars, outputStates, outputEchoStates, sensorVars,
                 sumVars, device, judged>>

ReaderStep ==
  \/ ReadPacket \/ TestRatiometric \/ AdoptRatiometric \/ DecrementSwitching
  \/ ShowEcho \/ StoreValues \/ StartEvents \/ ChangeEvent \/ SampleEvents \/ LoadSum \/ StoreSum
  \/ LoadCount \/ StoreCount \/ OutputEvents

-----------------------------------------------------------------------------
(* The write thread: CPhidget_write with getPacket.                        *)

notWriter == <<status, fixed, ratiometricEcho, ratiometricSwitching, sumVars,
               rateVars, sensorVars, sensorChangeTrigger, lockVars, central,
               reader, user, calls, told, judged, asked>>

\* CThread_reset_event(&writeAvailableEvent).
WriterWoken ==
  /\ writer.pc = "loop" /\ status = "attached"
  /\ writeAvailable
  /\ writeAvailable' = FALSE
  /\ writer' = [writer EXCEPT !.pc = "get"]
  /\ UNCHANGED <<notWriter, ratiometric, outputVars, outputEchoStates, written,
                 device>>

\* What getPacket makes of the outputs, and the packet it fills.
taken == [o \in Outputs |-> LET state == IF changedOutputs[o] THEN nextOutputStates[o]
                                                              ELSE outputStates[o]
                            IN IF Known(state) THEN state ELSE FALSE]

\* Fills a packet and takes the queue over into outputStates.
Fill(echoes, rates) ==
  /\ writer.pc = "get" /\ outputLock = Nobody
  /\ outputStates' = taken
  /\ nextOutputStates' = [o \in Outputs |-> IF changedOutputs[o] THEN Unknown
                                                         ELSE nextOutputStates[o]]
  /\ changedOutputs' = [o \in Outputs |-> FALSE]
  /\ outputEchoStates' = echoes
  /\ ratiometric' = IF fullStateEcho /\ ~Known(ratiometric) THEN TRUE ELSE ratiometric
  /\ writer' = [pc |-> "transfer",
                packet |-> [outputs |-> taken, ratiometric |-> ratiometric',
                            rate |-> rates]]
  /\ UNCHANGED <<notWriter, eventVars, device>>

sentRates == [i \in Sensors |-> Lesser(dataRate[i], InterruptRate)]
followed  == IF fullStateEcho THEN outputEchoStates ELSE taken

\* Mutant: the data rates are not in the packet.
GetPacketNoRates == Fill(followed, device.rate)

\* Mutant: every device is taken to have followed.
GetPacketEchoes == Fill(taken, sentRates)

\* All queued outputs go into one packet, with the ratiometric mode and the
\* rates; an unknown output is off, an unknown mode on.  A device that does not
\* echo is taken to have followed.
GetPacket == Fill(followed, sentRates)

\* CUSBSendPacket: the device takes the packet, or the write thread ends.
Transfer ==
  /\ writer.pc = "transfer"
  /\ \/ /\ status = "attached"
        /\ device' = [device EXCEPT
                        !.outputs = writer.packet.outputs, !.rate = writer.packet.rate,
                        !.ratiometric = IF fullStateEcho THEN writer.packet.ratiometric
                                                         ELSE @]
        /\ writer' = [pc |-> "sent", packet |-> noWrite]
     \/ /\ writer' = [pc |-> "failed", packet |-> noWrite]
        /\ UNCHANGED device
  /\ UNCHANGED <<notWriter, ratiometric, outputVars, outputEchoStates, eventVars>>

\* CThread_set_event(&writtenEvent), whatever happened.
SignalWritten ==
  /\ writer.pc \in {"sent", "failed"}
  /\ written' = TRUE
  /\ writer' = [writer EXCEPT !.pc = IF @ = "sent" THEN "loop" ELSE "dead"]
  /\ UNCHANGED <<notWriter, ratiometric, outputVars, outputEchoStates,
                 writeAvailable, device>>

WriterStep == WriterWoken \/ GetPacket \/ Transfer \/ SignalWritten

-----------------------------------------------------------------------------
(* The setters.                                                            *)

notUser == <<status, fixed, ratiometricEcho, sensorVars, central, reader,
             writer, device>>

Move(u, pc) == user' = [user EXCEPT ![u].pc = pc]
Return(u) == user' = [user EXCEPT ![u] = idle] /\ writelock' = Nobody

\* A power of two from DataRateMax on below the interrupt rate, a multiple of
\* it from there on.
ValidRate(rate) ==
  /\ rate \in DataRateMax .. DataRateMin
  /\ IF rate < InterruptRate THEN \E k \in 0 .. rate : rate = DataRateMax * 2^k
                             ELSE rate % InterruptRate = 0

DataPerPacket(rates) == MapThenSumSet(LAMBDA i : InterruptRate \div rates[i], Sensors)

\* "make sure we're not asking for too much data per packet": without a lock.
Fits(i, rate) == DataPerPacket([dataRate EXCEPT ![i] = rate]) <= MaxDataPerPacket

\* TESTATTACHED and the other tests of the setters; a call that fails them
\* changes nothing.
Call(u) ==
  /\ user[u] = idle /\ status = "attached" /\ calls < script.bound
  /\ calls' = calls + 1
  /\ \E call \in
       [pc : {"lock"}, op : {"output"}, index : Outputs, value : BOOLEAN]
       \cup IF fullStateEcho
            THEN [pc : {"lock"}, op : {"ratiometric"}, index : {0}, value : BOOLEAN]
                 \cup [pc : {"lock"}, op : {"rate"}, index : script.set,
                     value : Rates \cap script.arguments]
                 \cup [pc : {"mode"}, op : {"trigger"}, index : script.set,
                     value : Triggers \cap script.arguments]
            ELSE {} :
       /\ call.op \in script.calls[u]
       /\ call.op = "ratiometric" /\ Patient
            => /\ Known(ratiometricEcho) /\ ratiometricEcho = ratiometric
               /\ call.value # ratiometric
       /\ call.op = "rate" => ValidRate(call.value) /\ Fits(call.index, call.value)
       /\ user' = [user EXCEPT ![u] = call]
  /\ UNCHANGED <<notUser, ratiometric, ratiometricSwitching, outputVars,
                 outputEchoStates, sumVars, rateVars, sensorChangeTrigger, lockVars,
                 eventVars, told, judged, asked>>

TakeWritelock(u) ==
  /\ user[u].pc = "lock" /\ writelock = Nobody
  /\ writelock' = u
  /\ Move(u, user[u].op)
  /\ UNCHANGED <<notUser, ratiometric, ratiometricSwitching, outputVars,
                 outputEchoStates, sumVars, rateVars, sensorChangeTrigger,
                 outputLock, eventVars, calls, told, judged, asked>>

\* again: in sendpacket.  A new state is queued; the same one, queued or sent
\* already, is accepted as it is; another one for an output that is queued
\* waits for the packet to be written.
QueueOutput(u) ==
  /\ user[u].pc = "output" /\ outputLock = Nobody
  /\ LET o == user[u].index  newVal == user[u].value IN
     \/ /\ status # "attached"
        /\ Return(u)
        /\ UNCHANGED <<nextOutputStates, changedOutputs, written, asked>>
     \/ /\ status = "attached" /\ changedOutputs[o] /\ nextOutputStates[o] # newVal
        /\ Move(u, "waiting")
        /\ UNCHANGED <<nextOutputStates, changedOutputs, written, writelock, asked>>
     \/ /\ status = "attached"
        /\ IF changedOutputs[o] THEN nextOutputStates[o] = newVal
                                ELSE outputStates[o] = newVal
        /\ Return(u)
        /\ asked' = [asked EXCEPT ![o] = newVal]
        /\ UNCHANGED <<nextOutputStates, changedOutputs, written>>
     \/ /\ status = "attached" /\ ~changedOutputs[o] /\ outputStates[o] # newVal
        /\ changedOutputs' = [changedOutputs EXCEPT ![o] = TRUE]
        /\ nextOutputStates' = [nextOutputStates EXCEPT ![o] = newVal]
        /\ written' = FALSE
        /\ asked' = [asked EXCEPT ![o] = newVal]
        /\ Move(u, "signal")
        /\ UNCHANGED writelock
  /\ UNCHANGED <<notUser, ratiometric, ratiometricSwitching, outputStates,
                 outputEchoStates, sumVars, rateVars, sensorChangeTrigger,
                 outputLock, writeAvailable, calls, told, judged>>

\* CThread_wait_on_event(&writtenEvent, 2500).
AwaitWritten(u) ==
  /\ user[u].pc = "waiting"
  /\ \/ written /\ Move(u, "output") /\ UNCHANGED writelock
     \/ Return(u)
  /\ UNCHANGED <<notUser, ratiometric, ratiometricSwitching, outputVars,
                 outputEchoStates, sumVars, rateVars, sensorChangeTrigger,
                 outputLock, eventVars, calls, told, judged, asked>>

\* setRatiometric: one data packet is to be skipped.
AssignRatiometric(u) ==
  /\ user[u].pc = "ratiometric" /\ outputLock = Nobody
  /\ ratiometric' = user[u].value
  /\ ratiometricSwitching' = 2
  /\ Move(u, "signal")
  /\ UNCHANGED <<notUser, outputVars, outputEchoStates, sumVars, rateVars,
                 sensorChangeTrigger, lockVars, eventVars, calls, told, judged,
                 asked>>

\* setDataRate, under outputLock, which the read thread does not take.
AssignRate(u) ==
  /\ user[u].pc = "rate" /\ outputLock = Nobody
  /\ outputLock' = u
  /\ eventMode' = [eventMode EXCEPT ![user[u].index] = "DATARATE"]
  /\ dataRate' = [dataRate EXCEPT ![user[u].index] = user[u].value]
  /\ judged' = judged \ {user[u].index}
  /\ Move(u, "reset")
  /\ UNCHANGED <<notUser, ratiometric, ratiometricSwitching, outputVars,
                 outputEchoStates, sumVars, sensorChangeTrigger, writelock,
                 eventVars, calls, told, asked>>

ResetSum(u) ==
  /\ user[u].pc = "reset"
  /\ outputLock' = Nobody
  /\ accumulator' = [accumulator EXCEPT ![user[u].index] = 0]
  /\ accumulatorCount' = [accumulatorCount EXCEPT ![user[u].index] = 0]
  /\ Move(u, "signal")
  /\ UNCHANGED <<notUser, ratiometric, ratiometricSwitching, outputVars,
                 outputEchoStates, rateVars, sensorChangeTrigger, writelock,
                 eventVars, calls, told, judged, asked>>

\* CThread_set_event(&writeAvailableEvent), and for most calls the return.
SignalWriter(u) ==
  /\ user[u].pc = "signal"
  /\ writeAvailable' = TRUE
  /\ IF user[u].op = "output" /\ ~fullStateEcho
     THEN Move(u, "fire") /\ UNCHANGED writelock
     ELSE Return(u)
  /\ UNCHANGED <<notUser, ratiometric, ratiometricSwitching, outputVars,
                 outputEchoStates, sumVars, rateVars, sensorChangeTrigger,
                 outputLock, written, calls, told, judged, asked>>

\* "send output events for devices that don't echo".
FireOutput(u) ==
  /\ user[u].pc = "fire"
  /\ LET o == user[u].index  newVal == user[u].value
         changes == outputEchoStates[o] # newVal
     IN /\ outputEchoStates' = [outputEchoStates EXCEPT ![o] = newVal]
        /\ told' = IF changes /\ status = "attached"
                   THEN [told EXCEPT !.outputs[o] = newVal] ELSE told
  /\ Return(u)
  /\ UNCHANGED <<notUser, ratiometric, ratiometricSwitching, outputVars, sumVars,
                 rateVars, sensorChangeTrigger, outputLock, eventVars, calls,
                 judged, asked>>

\* setSensorChangeTrigger, without a lock: the mode, unless the trigger is 0,
\* and the trigger.
SetMode(u) ==
  /\ user[u].pc = "mode"
  /\ eventMode' = IF user[u].value = 0 THEN eventMode
                  ELSE [eventMode EXCEPT ![user[u].index] = "CHANGETRIGGER"]
  /\ judged' = judged \ {user[u].index}
  /\ Move(u, "trigger")
  /\ UNCHANGED <<notUser, ratiometric, ratiometricSwitching, outputVars,
                 outputEchoStates, sumVars, dataRate, sensorChangeTrigger,
                 lockVars, eventVars, calls, told, asked>>

SetTrigger(u) ==
  /\ user[u].pc = "trigger"
  /\ sensorChangeTrigger' = [sensorChangeTrigger EXCEPT ![user[u].index] = user[u].value]
  /\ judged' = judged \ {user[u].index}
  /\ user' = [user EXCEPT ![u] = idle]
  /\ UNCHANGED <<notUser, ratiometric, ratiometricSwitching, outputVars,
                 outputEchoStates, sumVars, rateVars, lockVars, eventVars, calls,
                 told, asked>>

UserStep(u) ==
  \/ TakeWritelock(u) \/ QueueOutput(u) \/ AwaitWritten(u) \/ AssignRatiometric(u)
  \/ AssignRate(u) \/ ResetSum(u) \/ SignalWriter(u) \/ FireOutput(u)
  \/ SetMode(u) \/ SetTrigger(u)

Next ==
  \/ InitAfterOpen \/ EventsAfterOpen \/ Detach \/ ReaderStep \/ WriterStep
  \/ \E u \in Users : Call(u) \/ UserStep(u)

Spec == Init /\ [][Next]_vars

-----------------------------------------------------------------------------
(* Properties.                                                             *)

State == BOOLEAN \cup {Unknown}
Value == Nat \cup {Unknown}

\* The state is well formed; what the handle keeps is unknown or a value.
TypeOK ==
  /\ status \in {"attaching", "attached", "detached"}
  /\ fullStateEcho \in BOOLEAN
  /\ ratiometric \in State /\ ratiometricEcho \in State
  /\ ratiometricSwitching \in 0 .. 2
  /\ outputStates \in [Outputs -> State] /\ nextOutputStates \in [Outputs -> State]
  /\ changedOutputs \in [Outputs -> BOOLEAN]
  /\ \A o \in Outputs : changedOutputs[o] <=> Known(nextOutputStates[o])
  /\ outputEchoStates \in [Outputs -> State]
  /\ sensorValue \in [Sensors -> Value] /\ sensorLastValue \in [Sensors -> Value]
  /\ sensorMode \in [Sensors -> State]
  /\ sensorChangeTrigger \in [Sensors -> Triggers]
  /\ eventMode \in [Sensors -> {"CHANGETRIGGER", "DATARATE"}]
  /\ dataRate \in [Sensors -> Rates]
  /\ accumulator \in [Sensors -> Nat] /\ accumulatorCount \in [Sensors -> 0 .. MaxCount]
  /\ writelock \in Users \cup {Nobody} /\ outputLock \in Users \cup {Nobody}
  /\ writeAvailable \in BOOLEAN /\ written \in BOOLEAN
  /\ central \in {"init", "events", "done"}
  /\ judged \subseteq Sensors /\ asked \in [Outputs -> State]

\* Once the write thread has nothing to do, the device has every output as it
\* was last asked for and accepted, whichever call it was sent with, the
\* ratiometric mode and every rate: getPacket combines the calls of all users,
\* and setters that do not reset writtenEvent share its two events.
DeviceConfigured ==
  /\ status = "attached" /\ writer.pc = "loop" /\ ~writeAvailable
  /\ \A u \in Users : user[u].pc \notin {"reset", "signal"}
  => /\ \A o \in Outputs : Known(asked[o]) => device.outputs[o] = asked[o]
     /\ fullStateEcho /\ Known(ratiometric)
        => device.rate = sentRates /\ device.ratiometric = ratiometric

\* The mode that is shown is the one the values were measured in, when it is
\* the mode last set, no switch is under way and no packet is being handled:
\* dataInput skips the packet that the switch cuts in two.
ShownAsMeasured ==
  reader.pc = "read" /\ ratiometricSwitching = 0
  /\ Known(ratiometricEcho) /\ ratiometricEcho = ratiometric
  => \A i \in Sensors : sensorMode[i] \in {Unknown, ratiometric}

\* A sensor in change trigger mode whose last packet was compared with the
\* trigger it still has: its value is within the trigger of the one dataInput
\* last called the handler with, also when that was in data rate mode.
ToldWithinTrigger ==
  status = "attached" /\ reader.pc = "read"
  => \A i \in judged : Known(sensorValue[i]) /\ Known(told.sensors[i]) =>
       \/ sensorValue[i] = told.sensors[i]
       \/ ~Telling(told.sensors[i], sensorValue[i], sensorChangeTrigger[i])

\* At rest the handler has been told the state every output has in the handle.
outputsTold == [o \in Outputs |->
  \/ ~Known(outputEchoStates[o])
  \/ told.outputs[o] = outputEchoStates[o]]
atRest == status = "attached" /\ central = "done" /\ reader.pc = "read"
          /\ \A u \in Users : user[u] = idle

\* Devices that echo: only the read thread and the attach call the handler.
EchoTold == atRest /\ fullStateEcho => \A o \in Outputs : outputsTold[o]

=============================================================================
