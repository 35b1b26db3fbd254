------------------------------ MODULE CTDServer ------------------------------
(***************************************************************************)
(* CTDSensorServer.js: every connection adds a listener for the readings of *)
(* the Phidgets interface and a timer for those of the IMU, and nothing     *)
(* removes them.  The emitter hands one reading, the same object, to all    *)
(* listeners in turn, and a listener converts data.value in place.  A       *)
(* reconnection is a new socket.                                           *)
(*                                                                         *)
(* Every connection also opens the Phidget, the same object, once more.     *)
(* Whether the phidgets module, which is not in the repository, then        *)
(* replaces its stream of readings or adds one is left open: each stream    *)
(* makes a 'sensor' event of each reading.  An event is a reading's number, *)
(* its input and its stream; a value, how often it was converted.  The      *)
(* source is read with the parenthesis that line 104 lacks.                *)
(***************************************************************************)
EXTENDS Naturals, Sequences

CONSTANTS
  Sockets,
  Sensors,      \* the indices of the analog inputs in use, within 0 .. 7
  MaxReadings,  \* bound: readings of the Phidgets interface
  MaxTicks      \* bound: ticks of each timer

ASSUME SensorsAssumption == Sensors \subseteq 0 .. 7
ASSUME BoundsAssumption == MaxReadings \in Nat /\ MaxTicks \in Nat

VARIABLES
  connected,   \* the sockets that are open
  listeners,   \* pik's listeners for 'sensor', by the socket each one writes to
  ticks,       \* per timer that was set: how often it has fired
  streams,     \* external: the streams of readings that pik has open
  readings,    \* how many readings there were
  arriving,    \* external: the events the streams have yet to make
  received,    \* per socket: the 'values' messages, in order
  due          \* history, per socket: the events made while it was open

vars == <<connected, listeners, ticks, streams, readings, arriving, received, due>>

scaled == 4 .. 6   \* temperature, pressure and salinity
imuPose == 8
imuDepth == 9

Event   == [id : 0 .. 9, reading : 0 .. MaxReadings, stream : Nat]
Message == [event : Event, conversions : Nat]

Init ==
  /\ connected = {} /\ listeners = <<>> /\ ticks = <<>>
  /\ streams = 0 /\ readings = 0 /\ arriving = {}
  /\ received = [s \in Sockets |-> <<>>]
  /\ due = [s \in Sockets |-> {}]

listening(s) == \E k \in 1 .. Len(listeners) : listeners[k] = s

\* External: a repeated pik.open replaces the stream, or adds one.
open == streams' \in {1, streams + 1}

\* io.sockets.on('connection').
Connect(s) ==
  /\ ~listening(s)
  /\ open
  /\ connected' = connected \cup {s}
  /\ listeners' = Append(listeners, s)
  /\ ticks' = [t \in DOMAIN ticks \cup {s} |-> IF t = s THEN 0 ELSE ticks[t]]
  /\ UNCHANGED <<readings, arriving, received, due>>

\* The client goes away; its listener and its timer stay.
Disconnect(s) ==
  /\ s \in connected
  /\ connected' = connected \ {s}
  /\ UNCHANGED <<listeners, ticks, streams, readings, arriving, received, due>>

\* How often the k-th listener's value of input i has been converted.
conversions(i, k) == IF i \in scaled THEN k ELSE 0

\* Mutant: every listener writes to every client.
sentByAll(e, s) ==
  [k \in 1 .. Len(listeners) |->
     [event |-> e, conversions |-> conversions(e.id, k)]]

\* What the listeners send to socket s of event e.
sent(e, s) ==
  LET mine == {k \in 1 .. Len(listeners) : listeners[k] = s}
      k == CHOOSE k \in mine : TRUE
  IN IF mine = {} THEN <<>>
     ELSE <<[event |-> e, conversions |-> conversions(e.id, k)]>>

\* External: the interface reports a change of input i to every stream.
Reading(i) ==
  /\ readings < MaxReadings /\ streams > 0
  /\ readings' = readings + 1
  /\ arriving' = arriving \cup
       {[id |-> i, reading |-> readings + 1, stream |-> k] : k \in 1 .. streams}
  /\ UNCHANGED <<connected, listeners, ticks, streams, received, due>>

\* A stream makes its event of a reading: pik.on('sensor').  What is sent to a
\* closed socket is dropped.
Sensor(e) ==
  /\ e \in arriving
  /\ arriving' = arriving \ {e}
  /\ received' = [s \in Sockets |->
                    IF s \in connected THEN received[s] \o sent(e, s)
                                       ELSE received[s]]
  /\ due' = [s \in Sockets |->
               IF s \in connected THEN due[s] \cup {e} ELSE due[s]]
  /\ UNCHANGED <<connected, listeners, ticks, streams, readings>>

\* The timer of socket s: the pose, and then the depth.
Tick(s) ==
  /\ s \in DOMAIN ticks /\ ticks[s] < MaxTicks
  /\ ticks' = [ticks EXCEPT ![s] = @ + 1]
  /\ LET imu(id) == [event |-> [id |-> id, reading |-> 0, stream |-> 0],
                      conversions |-> 0]
     IN received' = IF s \in connected
                    THEN [received EXCEPT ![s] = @ \o <<imu(imuPose), imu(imuDepth)>>]
                    ELSE received
  /\ UNCHANGED <<connected, listeners, streams, readings, arriving, due>>

Next == \/ \E s \in Sockets : Connect(s) \/ Disconnect(s) \/ Tick(s)
        \/ \E i \in Sensors : Reading(i)
        \/ \E e \in arriving : Sensor(e)

Spec == Init /\ [][Next]_vars

-----------------------------------------------------------------------------
(* Properties.                                                             *)

\* The values the variables take; no socket has two listeners.
TypeOK ==
  /\ connected \subseteq DOMAIN ticks /\ DOMAIN ticks \subseteq Sockets
  /\ listeners \in Seq(Sockets)
  /\ \A j, k \in 1 .. Len(listeners) : listeners[j] = listeners[k] => j = k
  /\ \A s \in DOMAIN ticks : ticks[s] \in 0 .. MaxTicks
  /\ streams \in Nat /\ readings \in 0 .. MaxReadings
  /\ arriving \subseteq Event
  /\ received \in [Sockets -> Seq(Message)]
  /\ due \in [Sockets -> SUBSET Event]

\* "Send temperature reading out to connected clients"
\* (CTDSensorServer.js:88): a client gets every 'sensor' event made while it is
\* connected once, and no other one, whatever listeners earlier connections left
\* behind.  A reading is as many events as pik has streams of it.
OneMessagePerEvent ==
  \A s \in Sockets :
    /\ \A e \in due[s] : \E j \in 1 .. Len(received[s]) : received[s][j].event = e
    /\ \A j \in 1 .. Len(received[s]) : received[s][j].event.reading > 0 =>
         /\ received[s][j].event \in due[s]
         /\ \A k \in 1 .. Len(received[s]) :
              received[s][k].event = received[s][j].event => k = j
==============================================================================
