--------------------------- MODULE CTDServerProofs ---------------------------
(***************************************************************************)
(* Theorems about CTDServer: its type invariant, and that a client gets     *)
(* each event once, for any number of sockets, inputs, readings and streams *)
(* of them.                                                                *)
(***************************************************************************)
EXTENDS CTDServer, SequenceTheorems, TLAPS

\* An event that has yet to be made is of a reading, and was never sent; a
\* connected socket has a listener.
Fresh ==
  /\ \A e \in arriving : e.reading \in 1 .. readings /\ \A s \in Sockets : e \notin due[s]
  /\ \A s \in Sockets : \A e \in due[s] : e.reading \in 1 .. readings

Inv ==
  /\ TypeOK
  /\ \A s \in connected : listening(s)
  /\ Fresh
  /\ OneMessagePerEvent

\* OneMessagePerEvent of one socket.
once(q, d) ==
  /\ \A e \in d : \E j \in 1 .. Len(q) : q[j].event = e
  /\ \A j \in 1 .. Len(q) : q[j].event.reading > 0 =>
       /\ q[j].event \in d
       /\ \A k \in 1 .. Len(q) : q[k].event = q[j].event => k = j

USE SensorsAssumption, BoundsAssumption

LEMMA OncePerSocket == OneMessagePerEvent <=> \A s \in Sockets : once(received[s], due[s])
  BY DEF OneMessagePerEvent, once

\* What the listeners send to a socket is one message of the event, if the
\* socket has a listener.
LEMMA SentOne ==
  ASSUME TypeOK, NEW s \in Sockets, NEW e \in Event
  PROVE  /\ sent(e, s) \in Seq(Message) /\ Len(sent(e, s)) \in 0 .. 1
         /\ listening(s) => Len(sent(e, s)) = 1
         /\ \A j \in 1 .. Len(sent(e, s)) : sent(e, s)[j].event = e
<1> DEFINE mine == {k \in 1 .. Len(listeners) : listeners[k] = s}
<1>1. CASE mine = {}
  <2>1. sent(e, s) = <<>>
    BY <1>1 DEF sent
  <2> QED
    BY <2>1, <1>1 DEF listening
<1>2. CASE mine # {}
  <2> DEFINE k == CHOOSE k \in mine : TRUE
             m == [event |-> e, conversions |-> conversions(e.id, k)]
  <2>1. k \in 1 .. Len(listeners)
    BY <1>2
  <2>2. m \in Message
    BY <2>1 DEF Message, conversions, TypeOK
  <2>3. sent(e, s) = <<m>>
    BY <1>2 DEF sent
  <2> QED
    BY <2>2, <2>3
<1> QED
  BY <1>1, <1>2

\* Every variable keeps the values the server can give it, and no socket ever
\* has two listeners (CTDSensorServer.js:72-112).
LEMMA TypeOKStep ==
  ASSUME TypeOK, [Next]_vars
  PROVE  TypeOK'
<1> USE DEF TypeOK
<1>1. ASSUME NEW s \in Sockets, Connect(s)
      PROVE  TypeOK'
  <2>1. /\ connected' \subseteq DOMAIN ticks' /\ DOMAIN ticks' \subseteq Sockets
        /\ \A t \in DOMAIN ticks' : ticks'[t] \in 0 .. MaxTicks
    BY <1>1 DEF Connect
  <2>2. /\ listeners' \in Seq(Sockets) /\ Len(listeners) \in Nat
        /\ Len(listeners') = Len(listeners) + 1
    BY <1>1 DEF Connect
  <2>3. \A j \in 1 .. Len(listeners) : listeners'[j] = listeners[j] /\ listeners[j] # s
    BY <1>1 DEF Connect, listening
  <2>4. listeners'[Len(listeners) + 1] = s
    BY <1>1 DEF Connect
  <2>5. \A j, k \in 1 .. Len(listeners') : listeners'[j] = listeners'[k] => j = k
    <3> SUFFICES ASSUME NEW j \in 1 .. Len(listeners'), NEW k \in 1 .. Len(listeners'),
                        listeners'[j] = listeners'[k]
                 PROVE  j = k
      OBVIOUS
    <3>1. CASE j \in 1 .. Len(listeners) /\ k \in 1 .. Len(listeners)
      BY <3>1, <2>3
    <3>2. CASE j = Len(listeners) + 1 /\ k \in 1 .. Len(listeners)
      BY <3>2, <2>3, <2>4
    <3>3. CASE j \in 1 .. Len(listeners) /\ k = Len(listeners) + 1
      BY <3>3, <2>3, <2>4
    <3>4. \A n \in 1 .. Len(listeners') : n \in 1 .. Len(listeners) \/ n = Len(listeners) + 1
      BY <2>2
    <3> QED
      BY <3>1, <3>2, <3>3, <3>4
  <2>6. streams' \in Nat
    BY <1>1 DEF Connect, open
  <2> QED
    BY <1>1, <2>1, <2>2, <2>5, <2>6 DEF Connect
<1>2. ASSUME NEW s \in Sockets, Disconnect(s)
      PROVE  TypeOK'
  BY <1>2 DEF Disconnect
<1>3. ASSUME NEW s \in Sockets, Tick(s)
      PROVE  TypeOK'
  <2> DEFINE imu(id) == [event |-> [id |-> id, reading |-> 0, stream |-> 0],
                         conversions |-> 0]
  <2>1. <<imu(imuPose), imu(imuDepth)>> \in Seq(Message)
    BY DEF Message, Event, imuPose, imuDepth
  <2>2. received' \in [Sockets -> Seq(Message)]
    <3>1. received[s] \o <<imu(imuPose), imu(imuDepth)>> \in Seq(Message)
      BY <2>1
    <3> QED
      BY <1>3, <3>1 DEF Tick
  <2> QED
    BY <1>3, <2>2 DEF Tick
<1>4. ASSUME NEW e \in arriving, Sensor(e)
      PROVE  TypeOK'
  <2>1. received' \in [Sockets -> Seq(Message)]
    <3>1. \A s \in Sockets : received[s] \o sent(e, s) \in Seq(Message)
      BY <1>4, SentOne DEF Sensor
    <3> QED
      BY <1>4, <3>1 DEF Sensor
  <2> QED
    BY <1>4, <2>1 DEF Sensor
<1>5. ASSUME NEW i \in Sensors, Reading(i)
      PROVE  TypeOK'
  <2>1. arriving' \subseteq Event
    BY <1>5 DEF Reading, Event
  <2> QED
    BY <1>5, <2>1 DEF Reading
<1>6. CASE UNCHANGED vars
  BY <1>6 DEF vars
<1> QED
  BY <1>1, <1>2, <1>3, <1>4, <1>5, <1>6 DEF Next

LEMMA InitOK == Init => Inv
<1> SUFFICES ASSUME Init PROVE Inv
  OBVIOUS
<1>1. TypeOK
  BY DEF Init, TypeOK
<1>2. \A s \in Sockets : 1 .. Len(received[s]) = {} /\ due[s] = {}
  <2>1. \A s \in Sockets : Len(received[s]) = 0 /\ due[s] = {}
    BY DEF Init
  <2>2. 1 .. 0 = {}
    OBVIOUS
  <2> QED
    BY <2>1, <2>2
<1>3. OneMessagePerEvent
  BY <1>2 DEF OneMessagePerEvent
<1> QED
  BY <1>1, <1>3 DEF Init, Inv, Fresh

\* What a socket was sent before stays as it was.
LEMMA SentStays ==
  ASSUME NEW q \in Seq(Message), NEW r \in Seq(Message)
  PROVE  /\ q \o r \in Seq(Message) /\ Len(q \o r) = Len(q) + Len(r)
         /\ \A j \in 1 .. Len(q) : (q \o r)[j] = q[j]
         /\ \A j \in 1 .. Len(r) : (q \o r)[Len(q) + j] = r[j]
         /\ \A j \in 1 .. Len(q \o r) : j \in 1 .. Len(q) \/ j - Len(q) \in 1 .. Len(r)
  OBVIOUS

\* An event that is made is sent once to every socket that is connected.
LEMMA SensorOnce ==
  ASSUME Inv, NEW e \in arriving, Sensor(e), NEW s \in Sockets
  PROVE  once(received'[s], due'[s])
<1> DEFINE q == received[s]
           r == sent(e, s)
<1>1. q \in Seq(Message) /\ e \in Event
  BY DEF Inv, TypeOK
<1>2. once(q, due[s])
  BY OncePerSocket DEF Inv
<1>3. e.reading > 0 /\ e \notin due[s]
  BY DEF Inv, Fresh, TypeOK
<1>4. CASE s \notin connected
  <2>1. received'[s] = received[s] /\ due'[s] = due[s]
    BY <1>4 DEF Sensor
  <2> QED
    BY <1>2, <2>1
<1>5. CASE s \in connected
  <2>1. /\ r \in Seq(Message) /\ Len(r) = 1 /\ r[1].event = e
    <3>1. listening(s) /\ TypeOK
      BY <1>5 DEF Inv
    <3> QED
      BY <1>1, <3>1, SentOne
  <2>2. received'[s] = q \o r /\ due'[s] = due[s] \cup {e}
    BY <1>5 DEF Sensor, Inv, TypeOK
  <2> HIDE DEF r, q
  <2> DEFINE p == received'[s]
  <2>3. /\ Len(q) \in Nat /\ Len(p) = Len(q) + 1
        /\ \A j \in 1 .. Len(q) : p[j] = q[j]
        /\ p[Len(q) + 1].event = e
    BY SMTT(40), <1>1, <2>1, <2>2, SentStays
  <2>4. \A j \in 1 .. Len(p) : j \in 1 .. Len(q) \/ j = Len(q) + 1
    BY <2>3
  \* None of the messages before was of this event.
  <2>5. \A j \in 1 .. Len(q) : q[j].event # e
    BY <1>2, <1>3 DEF once
  <2> HIDE DEF p
  <2>6. \A d \in due'[s] : \E j \in 1 .. Len(p) : p[j].event = d
    <3>1. \E j \in 1 .. Len(p) : p[j].event = e
      BY <2>3
    <3>2. ASSUME NEW d \in due[s] PROVE \E j \in 1 .. Len(p) : p[j].event = d
      <4>1. PICK j \in 1 .. Len(q) : q[j].event = d
        BY <1>2 DEF once
      <4> QED
        BY <2>3, <4>1
    <3> QED
      BY <2>2, <3>1, <3>2
  <2>7. ASSUME NEW j \in 1 .. Len(p), p[j].event.reading > 0
        PROVE  /\ p[j].event \in due'[s]
               /\ \A k \in 1 .. Len(p) : p[k].event = p[j].event => k = j
    <3>1. CASE j = Len(q) + 1
      BY <2>2, <2>3, <2>4, <2>5, <3>1
    <3>2. CASE j \in 1 .. Len(q)
      <4>1. p[j] = q[j] /\ q[j].event \in due[s] /\ q[j].event # e
        BY <1>2, <2>3, <2>5, <2>7, <3>2 DEF once
      <4>2. \A k \in 1 .. Len(q) : p[k].event = p[j].event => k = j
        BY <1>2, <2>3, <2>7, <3>2, <4>1 DEF once
      <4> QED
        BY <2>2, <2>3, <2>4, <4>1, <4>2
    <3> QED
      BY <2>4, <3>1, <3>2
  <2>8. once(p, due'[s])
    BY <2>6, <2>7 DEF once
  <2> QED
    BY <2>8 DEF p
<1> QED
  BY <1>4, <1>5

\* The IMU's messages are of no reading.
LEMMA TickKeeps ==
  ASSUME Inv, NEW t \in Sockets, Tick(t), NEW s \in Sockets
  PROVE  once(received'[s], due[s])
<1> DEFINE imu(id) == [event |-> [id |-> id, reading |-> 0, stream |-> 0],
                       conversions |-> 0]
           r == <<imu(imuPose), imu(imuDepth)>>
           q == received[s]
           p == received'[s]
<1>1. q \in Seq(Message) /\ Len(q) \in Nat
  BY DEF Inv, TypeOK
<1>2. once(q, due[s])
  BY OncePerSocket DEF Inv
<1>3. r \in Seq(Message) /\ Len(r) = 2 /\ \A j \in 1 .. 2 : r[j].event.reading = 0
  BY DEF Message, Event, imuPose, imuDepth
<1>4. p = q \/ p = q \o r
  BY DEF Tick, Inv, TypeOK
<1> HIDE DEF r, q, p
<1>5. CASE p = q \o r
  <2>1. /\ Len(p) = Len(q) + 2
        /\ \A j \in 1 .. Len(q) : p[j] = q[j]
        /\ \A j \in 1 .. 2 : p[Len(q) + j] = r[j]
    <3>1. /\ Len(q \o r) = Len(q) + Len(r)
          /\ \A j \in 1 .. Len(q) : (q \o r)[j] = q[j]
          /\ \A j \in 1 .. Len(r) : (q \o r)[Len(q) + j] = r[j]
      BY <1>1, <1>3, SentStays
    <3> QED
      BY <1>3, <1>5, <3>1
  <2>2. p[Len(q) + 1].event.reading = 0 /\ p[Len(q) + 2].event.reading = 0
    BY <1>3, <2>1
  <2>3. \A j \in 1 .. Len(p) : j \in 1 .. Len(q) \/ j = Len(q) + 1 \/ j = Len(q) + 2
    BY <1>1, <2>1
  <2>4. ASSUME NEW d \in due[s] PROVE \E j \in 1 .. Len(p) : p[j].event = d
    <3>1. PICK j \in 1 .. Len(q) : q[j].event = d
      BY <1>2 DEF once
    <3> QED
      BY <1>1, <2>1, <3>1
  <2>5. ASSUME NEW j \in 1 .. Len(p), p[j].event.reading > 0
        PROVE  /\ p[j].event \in due[s]
               /\ \A k \in 1 .. Len(p) : p[k].event = p[j].event => k = j
    <3>1. j \in 1 .. Len(q)
      BY <2>2, <2>3, <2>5
    <3>2. p[j] = q[j] /\ q[j].event.reading > 0
      BY <2>1, <2>5, <3>1
    <3>3. \A k \in 1 .. Len(p) : p[k].event = p[j].event => k \in 1 .. Len(q)
      BY <2>2, <2>3, <2>5
    <3> QED
      BY <1>2, <2>1, <3>1, <3>2, <3>3 DEF once
  <2>6. once(p, due[s])
    BY <2>4, <2>5 DEF once
  <2> QED
    BY <2>6 DEF p
<1> QED
  BY <1>2, <1>4, <1>5 DEF p, q

LEMMA Step ==
  ASSUME Inv, [Next]_vars
  PROVE  Inv'
<1>1. TypeOK'
  BY TypeOKStep DEF Inv
<1>2. ASSUME NEW s \in Sockets, Connect(s)
      PROVE  Inv'
  <2>1. \A t \in connected' : listening(t)'
    <3>1. listeners' = Append(listeners, s) /\ listeners \in Seq(Sockets)
      BY <1>2 DEF Connect, Inv, TypeOK
    <3>2. listening(s)' /\ \A t \in Sockets : listening(t) => listening(t)'
      BY <3>1 DEF listening
    <3> QED
      BY <1>2, <3>2 DEF Connect, Inv, TypeOK
  <2> QED
    BY <1>1, <1>2, <2>1 DEF Connect, Inv, Fresh, OneMessagePerEvent
<1>3. ASSUME NEW s \in Sockets, Disconnect(s)
      PROVE  Inv'
  BY <1>1, <1>3 DEF Disconnect, Inv, Fresh, listening, OneMessagePerEvent
<1>4. ASSUME NEW t \in Sockets, Tick(t)
      PROVE  Inv'
  <2>1. UNCHANGED <<connected, listeners, readings, arriving, due>>
    BY <1>4 DEF Tick
  <2>2. OneMessagePerEvent'
    BY <1>4, <2>1, TickKeeps DEF OneMessagePerEvent, once
  <2> QED
    BY <1>1, <1>4, <2>1, <2>2 DEF Inv, Fresh, listening
<1>5. ASSUME NEW e \in arriving, Sensor(e)
      PROVE  Inv'
  <2>1. OneMessagePerEvent'
    BY <1>5, SensorOnce DEF OneMessagePerEvent, once
  <2>2. /\ UNCHANGED <<connected, listeners, readings>> /\ arriving' = arriving \ {e}
        /\ \A s \in Sockets : due'[s] \subseteq due[s] \cup {e}
    BY <1>5 DEF Sensor, Inv, TypeOK
  <2>3. Fresh'
    BY <1>5, <2>2 DEF Inv, Fresh
  <2> QED
    BY <1>1, <2>1, <2>2, <2>3 DEF Inv, listening
<1>6. ASSUME NEW i \in Sensors, Reading(i)
      PROVE  Inv'
  <2>1. /\ UNCHANGED <<connected, listeners, received, due>> /\ readings' = readings + 1
        /\ readings \in Nat
        /\ \A e \in arriving' : e \in arriving \/ e.reading = readings + 1
    BY <1>6 DEF Reading, Inv, TypeOK
  <2>2. Fresh'
    BY <2>1 DEF Inv, Fresh
  <2> QED
    BY <1>1, <2>1, <2>2 DEF Inv, listening, OneMessagePerEvent
<1>7. CASE UNCHANGED vars
  BY <1>1, <1>7 DEF vars, Inv, Fresh, listening, OneMessagePerEvent
<1> QED
  BY <1>2, <1>3, <1>4, <1>5, <1>6, <1>7 DEF Next

\* The server's variables keep their values, and no socket has two listeners, for
\* any number of sockets, inputs and readings (CTDSensorServer.js:72-131).
THEOREM TypeCorrect == Spec => []TypeOK
<1>1. Inv => TypeOK
  BY DEF Inv
<1> QED
  BY <1>1, InitOK, Step, PTL DEF Spec

\* A client gets each 'sensor' event that is made while it is connected once, and
\* no other one, however many streams the repeated pik.open has left
\* (CTDSensorServer.js:84-112).
THEOREM OncePerEvent == Spec => []OneMessagePerEvent
<1>1. Inv => OneMessagePerEvent
  BY DEF Inv
<1> QED
  BY <1>1, InitOK, Step, PTL DEF Spec
=============================================================================
