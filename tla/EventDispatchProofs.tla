------------------------ MODULE EventDispatchProofs ------------------------
(***************************************************************************)
(* Theorems about EventDispatch, for any handles, users, calls in handlers   *)
(* and bounds.  The invariant IInv says who holds which lock (Owners), when   *)
(* the manager is listed (Listed) and what a close or a detach has done so   *)
(* far (Closing); Reading is about the read threads, Used about the devices   *)
(* in use.  Each is kept by every step: TypeStep, OwnersStep, ListedStep,     *)
(* ClosingStep and ReadingStep have a step for each action.  At the end,      *)
(* EventDispatch is shown to implement HandleLife.                           *)
(***************************************************************************)
EXTENDS EventDispatch, FiniteSetTheorems, TLAPS

-----------------------------------------------------------------------------
\* The central thread is inside CPhidgetManager_poll.
InPoll ==
  \/ central.pc \in {"poll", "initial", "activate", "initialEvents", "inInitial", "build",
                     "scan", "inManagerAttach", "ifError", "inManagerDetach", "detachFind",
                     "detachClear", "detachJoin", "detached", "inDetach"}
  \/ central.pc \in {"find", "match", "inAttach"} /\ ~central.pass

\* Steps of a call that are made with the handle's openCloseLock.
CloseSteps == {"unregister", "ifAttached", "clear", "join", "closed"}
HandleSteps == {"register"} \cup CloseSteps
ManagerSteps == {"enlist", "delist", "managerOpened", "managerClosed"}

\* Who holds which lock.
Owners ==
  /\ InPoll => lock["managerLock"] = Central
  /\ central.pc = "pass" => central.pass
  /\ central.pc \in {"detachClear", "detachJoin"} => lock["activeDevicesLock"] = Central
  /\ central.pc = "inAttach" => central.dev \in Handles /\ lock[central.dev] = Central
  /\ \A t \in Threads :
       /\ call[t].step \in {"open", "close"} => call[t].on \in Handles
       /\ call[t].step \in HandleSteps => call[t].on \in Handles /\ lock[call[t].on] = t
       /\ call[t].step \in ManagerSteps => lock["managerOpenCloseLock"] = t
  /\ call[Central].step # "none" => context(Central) # "none"
  /\ central.pc = "inAttach" /\ call[Central].step \in HandleSteps
       => call[Central].on # central.dev

\* The manager is on the list only between its open and its close.
Listed ==
  /\ manager.listed => manager.opened \/ \E t \in Threads : at(t, "managerOpened")
  /\ manager.listed /\ manager.state = "INACTIVE" => \E t \in Threads : at(t, "delist")
  /\ \A t \in Threads : at(t, "managerClosed") => ~manager.listed
  /\ central.pc \in {"activate", "initialEvents", "inInitial", "inManagerAttach",
                     "inManagerDetach"} => manager.listed

\* What a close and a detach have done to the handle so far.
Closing ==
  /\ ActiveDevices \subseteq opened /\ attached \subseteq opened
  /\ \A t \in Threads :
       /\ call[t].step \in CloseSteps => call[t].on \in opened
       /\ call[t].step \in CloseSteps \ {"unregister"} => call[t].on \notin ActiveDevices
       /\ call[t].step \in {"join", "closed"} => call[t].on \notin attached
  /\ central.pc \in {"detachClear", "detachJoin"} => central.dev \in ActiveDevices
  /\ central.pc \in {"match", "detachJoin"} => central.dev \notin attached

IInv == TypeOK /\ Owners /\ Listed /\ Closing

USE CallsAssumption, BoundsAssumption, NamesAssumption

LEMMA Names ==
  /\ Central \in Threads /\ Readers \subseteq Threads /\ Users \subseteq Threads
  /\ Nobody \notin Threads /\ Central \notin Readers
  /\ {"managerLock", "attachedDevicesLock", "activeDevicesLock", "managerOpenCloseLock"}
       \subseteq Locks
  /\ Handles \subseteq Locks
  /\ \A h \in Handles :
       /\ h # "managerLock" /\ h # "attachedDevicesLock" /\ h # "activeDevicesLock"
       /\ h # "managerOpenCloseLock" /\ h # Nobody
  BY DEF Threads, Locks

\* The manager keeps its state and its flags, whatever it was told of.
KeepsManager ==
  /\ manager'.listed = manager.listed /\ manager'.opened = manager.opened
  /\ manager'.state = manager.state

-----------------------------------------------------------------------------
(* What the variables become.                                              *)

LEMMA Locked ==
  ASSUME TypeOK, NEW l, NEW u \in Threads \cup {Nobody}
  PROVE  [lock EXCEPT ![l] = u] \in [Locks -> Threads \cup {Nobody}]
  BY DEF TypeOK

LEMMA Goes ==
  ASSUME TypeOK, NEW t \in Threads
  PROVE  /\ [call EXCEPT ![t] = noCall] \in [Threads -> CallStates]
         /\ \A step \in Steps : [call EXCEPT ![t].step = step] \in [Threads -> CallStates]
<1>1. noCall \in CallStates
  BY DEF noCall, Steps, CallStates
<1>2. ASSUME NEW step \in Steps
      PROVE  [call[t] EXCEPT !.step = step] \in CallStates
  BY DEF CallStates, TypeOK
<1> QED
  BY <1>1, <1>2 DEF TypeOK

LEMMA Moves ==
  ASSUME TypeOK, NEW p \in Places
  PROVE  /\ [central EXCEPT !.pc = p] \in CentralStates
         /\ [central EXCEPT !.pc = p].pc = p
         /\ [central EXCEPT !.pc = p].dev = central.dev
         /\ [central EXCEPT !.pc = p].pass = central.pass
  BY DEF TypeOK, CentralStates

LEMMA MovesOn ==
  ASSUME TypeOK, NEW p \in Places, NEW d \in Handles
  PROVE  /\ [central EXCEPT !.pc = p, !.dev = d] \in CentralStates
         /\ [central EXCEPT !.pc = p, !.dev = d].pc = p
         /\ [central EXCEPT !.pc = p, !.dev = d].dev = d
         /\ [central EXCEPT !.pc = p, !.dev = d].pass = central.pass
  BY DEF TypeOK, CentralStates

LEMMA MovesTo ==
  ASSUME TypeOK, NEW p \in Places, NEW d \in Handles
  PROVE  /\ [central EXCEPT !.pc = p, !.dev = d, !.todo = @ \ {d}] \in CentralStates
         /\ [central EXCEPT !.pc = p, !.dev = d, !.todo = @ \ {d}].pc = p
         /\ [central EXCEPT !.pc = p, !.dev = d, !.todo = @ \ {d}].pass = central.pass
  BY DEF TypeOK, CentralStates

LEMMA MovesOff ==
  ASSUME TypeOK, NEW p \in Places
  PROVE  /\ [central EXCEPT !.pc = p, !.detachList = @ \ {central.dev}] \in CentralStates
         /\ [central EXCEPT !.pc = p, !.detachList = @ \ {central.dev}].pc = p
         /\ [central EXCEPT !.pc = p, !.detachList = @ \ {central.dev}].dev = central.dev
         /\ [central EXCEPT !.pc = p, !.detachList = @ \ {central.dev}].pass = central.pass
  BY DEF TypeOK, CentralStates

LEMMA Tells ==
  ASSUME TypeOK, NEW S \in SUBSET Handles
  PROVE  LET m == [manager EXCEPT !.told = S]
         IN  /\ m \in ManagerValues
             /\ m.listed = manager.listed /\ m.opened = manager.opened
             /\ m.state = manager.state
  BY DEF TypeOK, ManagerValues

-----------------------------------------------------------------------------
(* What the steps with several outcomes do.                                *)

LEMMA CallDoes ==
  ASSUME TypeOK, NEW t \in Threads, Call(t)
  PROVE  /\ call[t] = noCall /\ context(t) # "none"
         /\ \E op \in CallsIn[context(t)] \ {"delete"} : \E h \in Handles \cup {Nobody} :
              /\ op \in Calls /\ (op \in HandleCalls => h \in Handles)
              /\ call' = [call EXCEPT ![t] = [op |-> op, step |-> op, on |-> h]]
         /\ call' \in [Threads -> CallStates]
         /\ call'[t].step \in Calls
         /\ \A u \in Threads : u # t => call'[u] = call[u]
         /\ UNCHANGED <<lock, central, threads, lists, flags, freed, deviceHandle, manager,
             bus>>
<1>1. context(t) \in Contexts
  BY DEF Call, context, Contexts
<1>2. CallsIn[context(t)] \subseteq Calls
  BY <1>1
<1>3. PICK op \in CallsIn[context(t)] \ {"delete"} :
        \E h \in (IF op \in HandleCalls THEN Handles \ freed ELSE {Nobody}) :
          call' = [call EXCEPT ![t] = [op |-> op, step |-> op, on |-> h]]
  BY DEF Call
<1>4. PICK h \in (IF op \in HandleCalls THEN Handles \ freed ELSE {Nobody}) :
        call' = [call EXCEPT ![t] = [op |-> op, step |-> op, on |-> h]]
  BY <1>3
<1>5. op \in Calls /\ h \in Handles \cup {Nobody} /\ (op \in HandleCalls => h \in Handles)
  BY <1>2
<1>6. [op |-> op, step |-> op, on |-> h] \in CallStates
  BY <1>5 DEF CallStates, Steps
<1>7. call' \in [Threads -> CallStates]
  BY <1>4, <1>6 DEF TypeOK
<1>8. call'[t].step \in Calls /\ \A u \in Threads : u # t => call'[u] = call[u]
  BY <1>4, <1>5 DEF TypeOK
<1> QED
  BY <1>4, <1>5, <1>7, <1>8 DEF Call

LEMMA OpenDoes ==
  ASSUME TypeOK, NEW t \in Threads, Open(t)
  PROVE  /\ \/ return(t) /\ UNCHANGED lock
            \/ /\ at(t, "open") /\ free(call[t].on)
               /\ goto(t, "register") /\ lock' = taken(call[t].on, t)
         /\ lock' \in [Locks -> Threads \cup {Nobody}] /\ call' \in [Threads -> CallStates]
<1>1. \/ return(t) /\ UNCHANGED lock
      \/ /\ at(t, "open") /\ free(call[t].on)
         /\ goto(t, "register") /\ lock' = taken(call[t].on, t)
  BY DEF Open
<1>2. lock' \in [Locks -> Threads \cup {Nobody}]
  BY <1>1, Locked DEF taken, TypeOK
<1>3. call' \in [Threads -> CallStates]
  <2>1. "register" \in Steps
    BY DEF Steps
  <2> QED
    BY <1>1, <2>1, Goes DEF return, goto
<1> QED
  BY <1>1, <1>2, <1>3

LEMMA CloseDoes ==
  ASSUME TypeOK, NEW t \in Threads, Close(t)
  PROVE  /\ \/ return(t) /\ UNCHANGED lock
            \/ /\ at(t, "close") /\ free(call[t].on) /\ call[t].on \in opened
               /\ goto(t, "unregister") /\ lock' = taken(call[t].on, t)
         /\ lock' \in [Locks -> Threads \cup {Nobody}] /\ call' \in [Threads -> CallStates]
<1>1. \/ return(t) /\ UNCHANGED lock
      \/ /\ at(t, "close") /\ free(call[t].on) /\ call[t].on \in opened
         /\ goto(t, "unregister") /\ lock' = taken(call[t].on, t)
  BY DEF Close
<1>2. lock' \in [Locks -> Threads \cup {Nobody}]
  BY <1>1, Locked DEF taken, TypeOK
<1>3. call' \in [Threads -> CallStates]
  <2>1. "unregister" \in Steps
    BY DEF Steps
  <2> QED
    BY <1>1, <2>1, Goes DEF return, goto
<1> QED
  BY <1>1, <1>2, <1>3

LEMMA ManagerOpenDoes ==
  ASSUME TypeOK, NEW t \in Threads, ManagerOpen(t)
  PROVE  /\ \/ return(t) /\ UNCHANGED lock
            \/ /\ free("managerOpenCloseLock")
               /\ goto(t, "enlist") \/ goto(t, "managerOpened")
               /\ lock' = taken("managerOpenCloseLock", t)
         /\ lock' \in [Locks -> Threads \cup {Nobody}] /\ call' \in [Threads -> CallStates]
<1>1. \/ return(t) /\ UNCHANGED lock
      \/ /\ free("managerOpenCloseLock")
         /\ goto(t, "enlist") \/ goto(t, "managerOpened")
         /\ lock' = taken("managerOpenCloseLock", t)
  BY DEF ManagerOpen
<1>2. lock' \in [Locks -> Threads \cup {Nobody}]
  BY <1>1, Locked DEF taken, TypeOK
<1>3. call' \in [Threads -> CallStates]
  <2>1. "enlist" \in Steps /\ "managerOpened" \in Steps
    BY DEF Steps
  <2> QED
    BY <1>1, <2>1, Goes DEF return, goto
<1> QED
  BY <1>1, <1>2, <1>3

LEMMA ManagerCloseDoes ==
  ASSUME TypeOK, NEW t \in Threads, ManagerClose(t)
  PROVE  /\ \/ return(t) /\ UNCHANGED <<lock, manager>>
            \/ /\ free("managerOpenCloseLock") /\ lock' = taken("managerOpenCloseLock", t)
               /\ \/ goto(t, "managerClosed") /\ manager.state = "INACTIVE"
                  \/ goto(t, "delist") /\ manager.state # "INACTIVE"
               /\ manager.opened /\ manager'.opened /\ manager'.listed = manager.listed
               /\ manager'.state = "INACTIVE"
         /\ manager' \in ManagerValues
         /\ lock' \in [Locks -> Threads \cup {Nobody}] /\ call' \in [Threads -> CallStates]
<1>1. \/ return(t) /\ UNCHANGED <<lock, manager>>
      \/ /\ free("managerOpenCloseLock") /\ lock' = taken("managerOpenCloseLock", t)
         /\ \/ goto(t, "managerClosed") /\ manager.state = "INACTIVE"
            \/ goto(t, "delist") /\ manager.state # "INACTIVE"
         /\ manager.opened /\ manager' = [manager EXCEPT !.state = "INACTIVE"]
  BY DEF ManagerClose
<1>2. lock' \in [Locks -> Threads \cup {Nobody}]
  BY <1>1, Locked DEF taken, TypeOK
<1>3. call' \in [Threads -> CallStates]
  <2>1. "managerClosed" \in Steps /\ "delist" \in Steps
    BY DEF Steps
  <2> QED
    BY <1>1, <2>1, Goes DEF return, goto
<1>4. CASE manager' = [manager EXCEPT !.state = "INACTIVE"]
  <2>1. /\ manager' \in ManagerValues
        /\ manager'.opened = manager.opened /\ manager'.listed = manager.listed
        /\ manager'.state = "INACTIVE"
    BY <1>4 DEF TypeOK, ManagerValues, ManagerStates
  <2> QED
    BY <1>1, <1>2, <1>3, <2>1
<1>5. CASE return(t) /\ UNCHANGED <<lock, manager>>
  BY <1>2, <1>3, <1>5 DEF TypeOK
<1> QED
  BY <1>1, <1>4, <1>5

LEMMA InitialEventDoes ==
  ASSUME TypeOK, InitialEvent
  PROVE  /\ in("initialEvents") /\ central'.pass = central.pass /\ KeepsManager
         /\ \/ central'.pc = "build" /\ UNCHANGED lock
            \/ central'.pc = "inInitial" /\ lock' = released("attachedDevicesLock")
         /\ central' \in CentralStates /\ manager' \in ManagerValues
         /\ lock' \in [Locks -> Threads \cup {Nobody}]
<1>1. CASE central.todo = {}
  <2>1. in("initialEvents") /\ central' = [central EXCEPT !.pc = "build"] /\ UNCHANGED <<lock,
      manager>>
    BY <1>1 DEF InitialEvent
  <2>2. "build" \in Places
    BY DEF Places
  <2>3. central' \in CentralStates /\ central'.pc = "build" /\ central'.pass = central.pass
    BY <2>1, <2>2, Moves
  <2> QED
    BY <2>1, <2>3 DEF TypeOK, KeepsManager
<1>2. CASE central.todo # {}
  <2>1. PICK d \in central.todo :
          /\ central' = [central EXCEPT !.pc = "inInitial", !.dev = d, !.todo = @ \ {d}]
          /\ manager' = [manager EXCEPT !.told = @ \cup {d}]
          /\ lock' = released("attachedDevicesLock")
    BY <1>2 DEF InitialEvent
  <2>2. "inInitial" \in Places /\ d \in Handles
    BY DEF Places, TypeOK, CentralStates
  <2>3. central' \in CentralStates /\ central'.pc = "inInitial" /\ central'.pass = central.pass
    BY <2>1, <2>2, MovesTo
  <2>4. manager.told \cup {d} \in SUBSET Handles
    BY <2>2 DEF TypeOK, ManagerValues
  <2>5. manager' \in ManagerValues /\ KeepsManager
    BY <2>1, <2>4, Tells DEF KeepsManager
  <2>6. lock' \in [Locks -> Threads \cup {Nobody}]
    BY <2>1, Locked DEF released
  <2>7. in("initialEvents")
    BY DEF InitialEvent
  <2> QED
    BY <2>1, <2>3, <2>5, <2>6, <2>7
<1> QED
  BY <1>1, <1>2

LEMMA AttachEventDoes ==
  ASSUME TypeOK, AttachEvent
  PROVE  /\ in("scan") /\ central'.pass = central.pass /\ KeepsManager
         /\ \/ central'.pc \in {"ifError", "find"} /\ UNCHANGED lock
            \/ /\ central'.pc = "inManagerAttach" /\ manager.listed
               /\ lock' = released("attachedDevicesLock")
         /\ central' \in CentralStates /\ manager' \in ManagerValues
         /\ lock' \in [Locks -> Threads \cup {Nobody}] /\ AttachedDevices' \subseteq Handles
<1>1. PICK d \in central.todo :
        /\ AttachedDevices' = AttachedDevices \cup {d}
        /\ IF d \in AttachedDevices
           THEN /\ central' = [central EXCEPT !.pc = "ifError", !.dev = d]
                /\ UNCHANGED <<lock, manager>>
           ELSE IF listening
           THEN /\ central' = [central EXCEPT !.pc = "inManagerAttach", !.dev = d]
                /\ manager' = [manager EXCEPT !.told = @ \cup {d}]
                /\ lock' = released("attachedDevicesLock")
           ELSE /\ central' = [central EXCEPT !.pc = "find", !.dev = d]
                /\ UNCHANGED <<lock, manager>>
  BY DEF AttachEvent
<1>2. d \in Handles /\ {"ifError", "find", "inManagerAttach"} \subseteq Places
  BY DEF TypeOK, CentralStates, Places
<1>3. AttachedDevices' \subseteq Handles /\ in("scan")
  BY <1>1, <1>2 DEF TypeOK, AttachEvent
<1>4. CASE \E p \in {"ifError", "find"} : /\ central' = [central EXCEPT !.pc = p, !.dev = d]
                                          /\ UNCHANGED <<lock, manager>>
  <2>1. PICK p \in {"ifError", "find"} : central' = [central EXCEPT !.pc = p, !.dev = d]
    BY <1>4
  <2>2. central' \in CentralStates /\ central'.pc = p /\ central'.pass = central.pass
    BY <1>2, <2>1, MovesOn
  <2> QED
    BY <1>3, <1>4, <2>2 DEF TypeOK, KeepsManager
<1>5. CASE /\ listening /\ central' = [central EXCEPT !.pc = "inManagerAttach", !.dev = d]
           /\ manager' = [manager EXCEPT !.told = @ \cup {d}]
           /\ lock' = released("attachedDevicesLock")
  <2>1. central' \in CentralStates /\ central'.pc = "inManagerAttach" /\ central'.pass =
      central.pass
    BY <1>2, <1>5, MovesOn
  <2>2. manager.told \cup {d} \in SUBSET Handles
    BY <1>2 DEF TypeOK, ManagerValues
  <2>3. manager' \in ManagerValues /\ KeepsManager
    BY <1>5, <2>2, Tells DEF KeepsManager
  <2>4. lock' \in [Locks -> Threads \cup {Nobody}]
    BY <1>5, Locked DEF released
  <2> QED
    BY <1>3, <1>5, <2>1, <2>3, <2>4 DEF listening
<1> QED
  BY <1>1, <1>4, <1>5

LEMMA AttachActiveDeviceDoes ==
  ASSUME TypeOK, AttachActiveDevice
  PROVE  /\ in("match") /\ central'.pass = central.pass /\ central'.dev = central.dev
         /\ \/ /\ central'.pc = "inAttach" /\ central.dev \in opened
               /\ free(central.dev) /\ lock' = taken(central.dev, Central)
               /\ attached' = attached \cup {central.dev}
               /\ deviceHandle' = [deviceHandle EXCEPT ![central.dev] = "usable"]
            \/ /\ central'.pc = afterFind
               /\ UNCHANGED <<lock, attached, deviceHandle>>
         /\ central' \in CentralStates /\ attached' \subseteq Handles
         /\ lock' \in [Locks -> Threads \cup {Nobody}]
<1>1. {"inAttach", afterFind} \subseteq Places
  BY DEF Places, afterFind
<1>2. CASE central.dev \in opened \cap plugged
  <2>1. /\ central' = [central EXCEPT !.pc = "inAttach"] /\ lock' = taken(central.dev, Central)
        /\ attached' = attached \cup {central.dev} /\ in("match") /\ free(central.dev)
        /\ deviceHandle' = [deviceHandle EXCEPT ![central.dev] = "usable"]
    BY <1>2 DEF AttachActiveDevice
  <2>2. /\ central' \in CentralStates /\ central'.pc = "inAttach"
        /\ central'.dev = central.dev /\ central'.pass = central.pass
    BY <1>1, <2>1, Moves
  <2>3. lock' \in [Locks -> Threads \cup {Nobody}]
    BY <2>1, Names, Locked DEF taken
  <2> QED
    BY <1>2, <2>1, <2>2, <2>3 DEF TypeOK
<1>3. CASE central.dev \notin opened \cap plugged
  <2>1. /\ central' = [central EXCEPT !.pc = afterFind] /\ in("match")
        /\ UNCHANGED <<lock, attached, deviceHandle>>
    BY <1>3 DEF AttachActiveDevice
  <2>2. /\ central' \in CentralStates /\ central'.pc = afterFind
        /\ central'.dev = central.dev /\ central'.pass = central.pass
    BY <1>1, <2>1, Moves
  <2> QED
    BY <2>1, <2>2 DEF TypeOK
<1> QED
  BY <1>2, <1>3

LEMMA StartReadDoes ==
  ASSUME TypeOK, central.dev \in Handles, StartRead
  PROVE  /\ in("inAttach") /\ central'.pass = central.pass /\ central'.pc = afterFind
         /\ central'.dev = central.dev /\ call[Central] = noCall
         /\ lock' = released(central.dev) /\ central' \in CentralStates
         /\ lock' \in [Locks -> Threads \cup {Nobody}]
         /\ thread_status' = [thread_status EXCEPT ![central.dev] = TRUE]
         /\ \E r \in Readers :
              /\ r[1] = central.dev
              /\ reader' = [reader EXCEPT ![r] = "read"]
              /\ readThread' = [readThread EXCEPT ![central.dev] = r]
<1>1. /\ central' = [central EXCEPT !.pc = afterFind] /\ in("inAttach")
      /\ call[Central] = noCall /\ lock' = released(central.dev)
      /\ thread_status' = [thread_status EXCEPT ![central.dev] = TRUE]
  BY DEF StartRead
<1>2. afterFind \in Places
  BY DEF Places, afterFind
<1>3. /\ central' \in CentralStates /\ central'.pc = afterFind
      /\ central'.dev = central.dev /\ central'.pass = central.pass
  BY <1>1, <1>2, Moves
<1>4. lock' \in [Locks -> Threads \cup {Nobody}]
  BY <1>1, Locked DEF released
<1>5. \E r \in Readers :
        /\ r[1] = central.dev
        /\ reader' = [reader EXCEPT ![r] = "read"]
        /\ readThread' = [readThread EXCEPT ![central.dev] = r]
  BY DEF StartRead, Readers
<1> QED
  BY <1>1, <1>3, <1>4, <1>5

LEMMA DetachEventDoes ==
  ASSUME TypeOK, DetachEvent
  PROVE  /\ in("scan") /\ central'.pass = central.pass /\ KeepsManager
         /\ \/ central'.pc = "detachFind" /\ UNCHANGED lock
            \/ /\ central'.pc = "inManagerDetach" /\ manager.listed
               /\ lock' = released("attachedDevicesLock")
         /\ central' \in CentralStates /\ manager' \in ManagerValues
         /\ lock' \in [Locks -> Threads \cup {Nobody}] /\ AttachedDevices' \subseteq Handles
<1>1. PICK d \in central.detachList :
        /\ AttachedDevices' = AttachedDevices \ {d}
        /\ central' = [central EXCEPT !.pc = IF listening THEN "inManagerDetach"
                                             ELSE "detachFind", !.dev = d]
        /\ IF listening
           THEN /\ manager' = [manager EXCEPT !.told = @ \ {d}]
                /\ lock' = released("attachedDevicesLock")
           ELSE UNCHANGED <<lock, manager>>
  BY DEF DetachEvent
<1>2. d \in Handles /\ {"inManagerDetach", "detachFind"} \subseteq Places
  BY DEF TypeOK, CentralStates, Places
<1>3. AttachedDevices' \subseteq Handles /\ in("scan")
  BY <1>1 DEF TypeOK, DetachEvent
<1>4. CASE listening
  <2>1. /\ central' = [central EXCEPT !.pc = "inManagerDetach", !.dev = d]
        /\ manager' = [manager EXCEPT !.told = @ \ {d}]
        /\ lock' = released("attachedDevicesLock")
    BY <1>1, <1>4
  <2>2. central' \in CentralStates /\ central'.pc = "inManagerDetach" /\ central'.pass =
      central.pass
    BY <1>2, <2>1, MovesOn
  <2>3. manager.told \ {d} \in SUBSET Handles
    BY DEF TypeOK, ManagerValues
  <2>4. manager' \in ManagerValues /\ KeepsManager
    BY <2>1, <2>3, Tells DEF KeepsManager
  <2>5. lock' \in [Locks -> Threads \cup {Nobody}]
    BY <2>1, Locked DEF released
  <2> QED
    BY <1>3, <1>4, <2>1, <2>2, <2>4, <2>5 DEF listening
<1>5. CASE ~listening
  <2>1. /\ central' = [central EXCEPT !.pc = "detachFind", !.dev = d]
        /\ UNCHANGED <<lock, manager>>
    BY <1>1, <1>5
  <2>2. central' \in CentralStates /\ central'.pc = "detachFind" /\ central'.pass = central.pass
    BY <1>2, <2>1, MovesOn
  <2> QED
    BY <1>3, <2>1, <2>2 DEF TypeOK, KeepsManager
<1> QED
  BY <1>4, <1>5

LEMMA DetachFindDoes ==
  ASSUME TypeOK, DetachFind
  PROVE  /\ in("detachFind") /\ central'.pass = central.pass /\ central'.dev = central.dev
         /\ free("activeDevicesLock")
         /\ \/ /\ central'.pc = "detachClear" /\ central.dev \in ActiveDevices
               /\ lock' = taken("activeDevicesLock", Central)
            \/ central'.pc = "scan" /\ UNCHANGED lock
         /\ central' \in CentralStates /\ lock' \in [Locks -> Threads \cup {Nobody}]
<1>1. {"detachClear", "scan"} \subseteq Places
  BY DEF Places
<1>2. in("detachFind") /\ free("activeDevicesLock")
  BY DEF DetachFind
<1>3. CASE central.dev \in ActiveDevices \cap attached
  <2>1. /\ central' = [central EXCEPT !.pc = "detachClear"]
        /\ lock' = taken("activeDevicesLock", Central)
    BY <1>3 DEF DetachFind
  <2>2. /\ central' \in CentralStates /\ central'.pc = "detachClear"
        /\ central'.dev = central.dev /\ central'.pass = central.pass
    BY <1>1, <2>1, Moves
  <2>3. lock' \in [Locks -> Threads \cup {Nobody}]
    BY <2>1, Names, Locked DEF taken
  <2> QED
    BY <1>2, <1>3, <2>1, <2>2, <2>3
<1>4. CASE central.dev \notin ActiveDevices \cap attached
  <2>1. /\ central' = [central EXCEPT !.pc = "scan", !.detachList = @ \ {central.dev}]
        /\ UNCHANGED lock
    BY <1>4 DEF DetachFind
  <2>2. /\ central' \in CentralStates /\ central'.pc = "scan"
        /\ central'.dev = central.dev /\ central'.pass = central.pass
    BY <1>1, <2>1, MovesOff
  <2> QED
    BY <1>2, <2>1, <2>2 DEF TypeOK
<1> QED
  BY <1>3, <1>4

LEMMA DetachedDoes ==
  ASSUME TypeOK, Detached
  PROVE  /\ in("inDetach") /\ call[Central] = noCall /\ central'.pass = central.pass
         /\ central'.pc \in {"scan", "undefined"} /\ UNCHANGED lock
         /\ central' \in CentralStates /\ usbError' \subseteq Handles
<1>1. {"undefined", "scan"} \subseteq Places
  BY DEF Places
<1>2. in("inDetach") /\ call[Central] = noCall /\ UNCHANGED lock
  BY DEF Detached
<1>3. CASE central.dev \in freed
  <2>1. central' = [central EXCEPT !.pc = "undefined"] /\ UNCHANGED usbError
    BY <1>3 DEF Detached
  <2>2. central' \in CentralStates /\ central'.pc = "undefined" /\ central'.pass = central.pass
    BY <1>1, <2>1, Moves
  <2> QED
    BY <1>2, <2>1, <2>2 DEF TypeOK
<1>4. CASE central.dev \notin freed
  <2>1. /\ central' = [central EXCEPT !.pc = "scan", !.detachList = @ \ {central.dev}]
        /\ usbError' = usbError \ {central.dev}
    BY <1>4 DEF Detached
  <2>2. central' \in CentralStates /\ central'.pc = "scan" /\ central'.pass = central.pass
    BY <1>1, <2>1, MovesOff
  <2> QED
    BY <1>2, <2>1, <2>2 DEF TypeOK
<1> QED
  BY <1>3, <1>4

LEMMA FindActiveDevicesDoes ==
  ASSUME TypeOK, FindActiveDevices
  PROVE  /\ \/ /\ in("polled") /\ free("attachedDevicesLock")
               /\ central'.pc = "pass" /\ central'.pass
               /\ lock' = taken("attachedDevicesLock", Central)
            \/ /\ in("pass") /\ central'.pc = "find" /\ central'.pass = central.pass
               /\ UNCHANGED lock
            \/ in("pass") /\ central'.pc = "idle" /\ lock' = released("attachedDevicesLock")
         /\ central' \in CentralStates /\ lock' \in [Locks -> Threads \cup {Nobody}]
<1>1. {"pass", "find", "idle"} \subseteq Places
  BY DEF Places
<1>2. CASE in("polled")
  <2>1. /\ free("attachedDevicesLock") /\ lock' = taken("attachedDevicesLock", Central)
        /\ central' = [central EXCEPT !.pc = "pass", !.pass = TRUE, !.todo = AttachedDevices]
    BY <1>2 DEF FindActiveDevices, in
  <2>2. central' \in CentralStates /\ central'.pc = "pass" /\ central'.pass
    BY <1>1, <2>1 DEF TypeOK, CentralStates
  <2>3. lock' \in [Locks -> Threads \cup {Nobody}]
    BY <2>1, Names, Locked DEF taken
  <2> QED
    BY <1>2, <2>1, <2>2, <2>3
<1>3. CASE in("pass") /\ central.todo = {}
  <2>1. /\ lock' = released("attachedDevicesLock")
        /\ central' = [central EXCEPT !.pc = "idle", !.pass = FALSE]
    BY <1>3 DEF FindActiveDevices, in
  <2>2. central' \in CentralStates /\ central'.pc = "idle"
    BY <1>1, <2>1 DEF TypeOK, CentralStates
  <2>3. lock' \in [Locks -> Threads \cup {Nobody}]
    BY <2>1, Locked DEF released
  <2> QED
    BY <1>3, <2>1, <2>2, <2>3
<1>4. CASE in("pass") /\ central.todo # {}
  <2>1. PICK d \in central.todo :
          central' = [central EXCEPT !.pc = "find", !.dev = d, !.todo = @ \ {d}]
    BY <1>4 DEF FindActiveDevices, in
  <2>2. d \in Handles /\ UNCHANGED lock
    BY <1>4 DEF FindActiveDevices, TypeOK, CentralStates, in
  <2>3. central' \in CentralStates /\ central'.pc = "find" /\ central'.pass = central.pass
    BY <1>1, <2>1, <2>2, MovesTo
  <2> QED
    BY <1>4, <2>2, <2>3 DEF TypeOK
<1> QED
  BY <1>2, <1>3, <1>4 DEF FindActiveDevices

LEMMA TypeStep ==
  ASSUME IInv, [Next]_vars
  PROVE  TypeOK'
<1> USE Names DEF IInv, TypeOK, Owners, HandleSteps, CloseSteps
<1>0. CASE UNCHANGED vars
  BY <1>0 DEF vars, context, at, in
<1>1. ASSUME NEW t \in Threads, Call(t) PROVE TypeOK'
  <2>1. made' \in 0 .. MaxCalls
    BY <1>1 DEF Call
  <2> QED
    BY <1>1, <2>1, CallDoes DEF lists, flags, threads, bus
<1>2. ASSUME NEW t \in Threads, Delete(t) PROVE TypeOK'
  BY <1>2 DEF Delete, noCall, lists, flags, threads, bus
<1>3. ASSUME NEW t \in Threads, Open(t) PROVE TypeOK'
  <2>1. UNCHANGED <<central, threads, lists, flags, freed, deviceHandle, manager, bus, made>>
    BY <1>3 DEF Open
  <2> QED
    BY <1>3, OpenDoes, <2>1 DEF at, goto, return, free, taken, noCall, lists, flags, threads,
        bus, Steps, Calls, HandleCalls, CallStates, released
<1>4. ASSUME NEW t \in Threads, OpenRegister(t) PROVE TypeOK'
  BY <1>4 DEF OpenRegister, at, return, free, released, noCall, threads, bus, Steps, Calls,
      HandleCalls, CallStates
<1>5. ASSUME NEW t \in Threads, Close(t) PROVE TypeOK'
  <2>1. UNCHANGED <<central, threads, lists, flags, freed, deviceHandle, manager, bus, made>>
    BY <1>5 DEF Close
  <2> QED
    BY <1>5, CloseDoes, <2>1 DEF at, goto, return, free, taken, noCall, lists, flags, threads,
        bus, Steps, Calls, HandleCalls, CallStates, released
<1>6. ASSUME NEW t \in Threads, CloseUnregister(t) PROVE TypeOK'
  <2>1. "ifAttached" \in Steps
    BY DEF Steps
  <2>2. call' \in [Threads -> CallStates]
    BY <1>6, <2>1, Goes DEF CloseUnregister, goto
  <2>3. ActiveDevices' \subseteq Handles
    BY <1>6 DEF CloseUnregister
  <2>4. UNCHANGED <<lock, central, threads, AttachedDevices, flags, freed, deviceHandle,
      manager, bus, made>>
    BY <1>6 DEF CloseUnregister
  <2> QED
    BY <2>2, <2>3, <2>4 DEF lists, flags, threads, bus
<1>7. ASSUME NEW t \in Threads, CloseIfAttached(t) PROVE TypeOK'
  BY <1>7 DEF CloseIfAttached, at, goto, lists, flags, threads, bus, Steps, Calls,
      HandleCalls, CallStates
<1>8. ASSUME NEW t \in Threads, CloseClear(t) PROVE TypeOK'
  BY SMTT(40), <1>8 DEF CloseClear, at, goto, lists, threads, bus, Steps, Calls, HandleCalls, CallStates
<1>9. ASSUME NEW t \in Threads, CloseJoin(t) PROVE TypeOK'
  BY <1>9 DEF CloseJoin, at, goto, lists, flags, threads, bus, Steps, Calls, HandleCalls,
      CallStates
<1>10. ASSUME NEW t \in Threads, CloseEnd(t) PROVE TypeOK'
  BY <1>10 DEF CloseEnd, at, return, released, noCall, lists, threads, bus, Steps, Calls,
      HandleCalls, CallStates
<1>11. ASSUME NEW t \in Threads, GetAttachedDevices(t) PROVE TypeOK'
  BY <1>11 DEF GetAttachedDevices, at, return, free, noCall, lists, flags, threads, bus,
      Steps, Calls, HandleCalls, CallStates
<1>12. ASSUME NEW t \in Threads, ManagerOpen(t) PROVE TypeOK'
  <2>1. UNCHANGED <<central, threads, lists, flags, freed, deviceHandle, manager, bus, made>>
    BY <1>12 DEF ManagerOpen
  <2> QED
    BY <1>12, ManagerOpenDoes, <2>1 DEF at, goto, return, free, taken, noCall, lists, flags,
        threads, bus, Steps, Calls, HandleCalls, CallStates, released
<1>13. ASSUME NEW t \in Threads, ManagerEnlist(t) PROVE TypeOK'
  <2>1. "managerOpened" \in Steps
    BY DEF Steps
  <2>2. call' \in [Threads -> CallStates]
    BY <1>13, <2>1, Goes DEF ManagerEnlist, goto
  <2>3. manager' \in ManagerValues
    BY <1>13 DEF ManagerEnlist, ManagerValues, ManagerStates
  <2>4. UNCHANGED <<lock, central, threads, lists, flags, freed, deviceHandle, bus, made>>
    BY <1>13 DEF ManagerEnlist
  <2> QED
    BY <2>2, <2>3, <2>4 DEF lists, flags, threads, bus
<1>14. ASSUME NEW t \in Threads, ManagerClose(t) PROVE TypeOK'
  <2>1. UNCHANGED <<central, threads, lists, flags, freed, deviceHandle, bus, made>>
    BY <1>14 DEF ManagerClose
  <2> QED
    BY <1>14, ManagerCloseDoes, <2>1 DEF at, goto, return, free, taken, noCall, lists, flags,
        threads, bus, Steps, ManagerStates, Calls, HandleCalls, CallStates, ManagerValues,
        released
<1>15. ASSUME NEW t \in Threads, ManagerDelist(t) PROVE TypeOK'
  <2>1. "managerClosed" \in Steps
    BY DEF Steps
  <2>2. call' \in [Threads -> CallStates]
    BY <1>15, <2>1, Goes DEF ManagerDelist, goto
  <2>3. manager' \in ManagerValues
    BY <1>15 DEF ManagerDelist, ManagerValues, ManagerStates
  <2>4. UNCHANGED <<lock, central, threads, lists, flags, freed, deviceHandle, bus, made>>
    BY <1>15 DEF ManagerDelist
  <2> QED
    BY <2>2, <2>3, <2>4 DEF lists, flags, threads, bus
<1>16. ASSUME NEW t \in Threads, ManagerEnd(t) PROVE TypeOK'
  BY <1>16 DEF ManagerEnd, at, return, released, noCall, lists, flags, threads, bus, Steps,
      ManagerStates, Calls, HandleCalls, CallStates, ManagerValues
<1>17. CASE PollBegin
  <2>1. "poll" \in Places /\ "initial" \in Places
    BY DEF Places
  <2>2. central' \in CentralStates
    BY <1>17, <2>1, Moves DEF PollBegin
  <2>3. lock' \in [Locks -> Threads \cup {Nobody}]
    BY <1>17, Locked DEF PollBegin, taken
  <2>4. UNCHANGED <<threads, call, lists, flags, freed, deviceHandle, manager, bus, made>>
    BY <1>17 DEF PollBegin
  <2> QED
    BY <2>2, <2>3, <2>4 DEF lists, flags, threads, bus
<1>18. CASE InitialTest
  BY <1>18 DEF InitialTest, in, lists, flags, threads, bus, Places, CentralStates
<1>19. CASE InitialActivate
  BY <1>19 DEF InitialActivate, in, lists, flags, threads, bus, Places, ManagerStates,
      CentralStates, ManagerValues
<1>20. CASE InitialEvent
  <2>1. UNCHANGED <<threads, call, lists, flags, freed, deviceHandle, bus, made>>
    BY <1>20 DEF InitialEvent
  <2> QED
    BY <1>20, InitialEventDoes, <2>1 DEF in, released, lists, flags, threads, bus, Places,
        ManagerStates, CentralStates, ManagerValues, afterFind, free, taken, noCall
<1>21. CASE BuildList
  BY <1>21 DEF BuildList, in, lists, flags, threads, bus, Places, CentralStates
<1>22. CASE AttachEvent
  <2>1. UNCHANGED <<threads, call, ActiveDevices, flags, freed, deviceHandle, bus, made>>
    BY <1>22 DEF AttachEvent
  <2> QED
    BY <1>22, AttachEventDoes, <2>1 DEF in, listening, released, flags, threads, bus, Places,
        ManagerStates, CentralStates, ManagerValues, afterFind, free, taken, noCall
<1>23. CASE FindActiveDevice
  BY <1>23 DEF FindActiveDevice, in, afterFind, free, lists, flags, threads, bus, Places,
      CentralStates
<1>24. CASE AttachActiveDevice
  <2>1. UNCHANGED <<threads, call, lists, opened, usbError, freed, manager, bus, made>>
    BY <1>24 DEF AttachActiveDevice
  <2> QED
    BY <1>24, AttachActiveDeviceDoes, <2>1 DEF in, afterFind, free, taken, lists, threads,
        bus, Places, CentralStates, released, noCall
<1>25. CASE UseFreed
  BY <1>25 DEF UseFreed, in, lists, flags, threads, bus, Places, CentralStates
<1>26. CASE StartRead
  <2>1. central.dev \in Handles
    BY <1>26 DEF StartRead, in
  <2>2. PICK r \in Readers : /\ reader' = [reader EXCEPT ![r] = "read"]
                             /\ readThread' = [readThread EXCEPT ![central.dev] = r]
    BY <1>26, <2>1, StartReadDoes
  <2>3. /\ reader' \in [Readers -> {"none", "read", "transfer", "data"}]
        /\ readThread' \in [Handles -> Readers \cup {Nobody}]
    BY <2>2
  <2>4. UNCHANGED <<call, lists, flags, freed, deviceHandle, manager, bus, made>>
    BY <1>26 DEF StartRead
  <2> QED
    BY <1>26, <2>1, <2>3, <2>4, StartReadDoes DEF lists, flags, bus
<1>27. CASE CheckError
  BY <1>27 DEF CheckError, in, free, lists, flags, threads, bus, Places, CentralStates
<1>28. CASE DetachEvent
  <2>1. UNCHANGED <<threads, call, ActiveDevices, flags, freed, deviceHandle, bus, made>>
    BY <1>28 DEF DetachEvent
  <2> QED
    BY <1>28, DetachEventDoes, <2>1 DEF in, listening, released, flags, threads, bus, Places,
        ManagerStates, CentralStates, ManagerValues, afterFind, free, taken, noCall
<1>29. CASE DetachFind
  <2>1. UNCHANGED <<threads, call, lists, flags, freed, deviceHandle, manager, bus, made>>
    BY <1>29 DEF DetachFind
  <2> QED
    BY <1>29, DetachFindDoes, <2>1 DEF in, free, taken, lists, flags, threads, bus, Places,
        CentralStates, afterFind, released, noCall
<1>30. CASE DetachClear
  BY <1>30 DEF DetachClear, in, lists, threads, bus, Places, CentralStates
<1>31. CASE DetachJoin
  BY <1>31 DEF DetachJoin, in, released, lists, flags, threads, bus, Places, CentralStates
<1>32. CASE DetachHandler
  BY <1>32 DEF DetachHandler, in, lists, flags, threads, bus, Places, CentralStates
<1>33. CASE Detached
  <2>1. UNCHANGED <<lock, threads, call, lists, opened, attached, freed, deviceHandle,
      manager, bus, made>>
    BY <1>33 DEF Detached
  <2> QED
    BY <1>33, DetachedDoes, <2>1 DEF in, noCall, lists, threads, bus, Places, CentralStates,
        afterFind, free, taken, released
<1>34. CASE ManagerHandled
  BY <1>34 DEF ManagerHandled, in, free, taken, noCall, lists, flags, threads, bus, Places,
      CentralStates
<1>35. CASE PollEnd
  BY <1>35 DEF PollEnd, in, lists, flags, threads, bus, Places, CentralStates
<1>36. CASE FindActiveDevices
  <2>1. UNCHANGED <<threads, call, lists, flags, freed, deviceHandle, manager, bus, made>>
    BY <1>36 DEF FindActiveDevices
  <2> QED
    BY <1>36, FindActiveDevicesDoes, <2>1 DEF in, free, taken, released, lists, flags,
        threads, bus, Places, CentralStates, afterFind, noCall
<1>37. ASSUME NEW r \in Readers, Read(r) PROVE TypeOK'
  BY <1>37 DEF Read, lists, flags, bus
<1>38. ASSUME NEW r \in Readers, ReadExit(r) PROVE TypeOK'
  <2>1. r[1] \in Handles
    BY DEF Readers
  <2>2. /\ reader' \in [Readers -> {"none", "read", "transfer", "data"}]
        /\ thread_status' \in [Handles -> BOOLEAN]
        /\ usbError' \subseteq Handles
    BY <1>38, <2>1 DEF ReadExit, exit
  <2>3. UNCHANGED <<lock, central, readThread, call, lists, opened, attached, freed,
      deviceHandle, manager, bus, made>>
    BY <1>38 DEF ReadExit
  <2> QED
    BY <2>2, <2>3 DEF lists, bus
<1>39. ASSUME NEW d \in Handles, Plug(d) PROVE TypeOK'
  BY <1>39 DEF Plug, lists, flags, threads
<1>40. ASSUME NEW d \in Handles, Unplug(d) PROVE TypeOK'
  BY <1>40 DEF Unplug, lists, flags, threads
<1> QED
  BY <1>0, <1>1, <1>2, <1>3, <1>4, <1>5, <1>6, <1>7, <1>8, <1>9, <1>10, <1>11, <1>12, <1>13,
      <1>14, <1>15, <1>16, <1>17, <1>18, <1>19, <1>20, <1>21, <1>22, <1>23, <1>24, <1>25,
      <1>26, <1>27, <1>28, <1>29, <1>30, <1>31, <1>32, <1>33, <1>34, <1>35, <1>36, <1>37,
      <1>38, <1>39, <1>40 DEF Next, CentralStep, CallStep, ReaderStep

LEMMA OwnersStep ==
  ASSUME IInv, [Next]_vars
  PROVE  Owners'
<1> USE Names DEF IInv, TypeOK, CentralStates, CallStates, ManagerValues, Owners, InPoll,
    HandleSteps, CloseSteps, ManagerSteps
<1>0. CASE UNCHANGED vars
  BY <1>0 DEF vars, context, at, in
<1>1. ASSUME NEW t \in Threads, Call(t) PROVE Owners'
  <2> QED
    BY <1>1, CallDoes DEF at, noCall, lists, flags, threads, bus, context, Calls, HandleCalls,
        goto, return, free, taken, released
<1>2. ASSUME NEW t \in Threads, Delete(t) PROVE Owners'
  BY <1>2 DEF Delete, at, noCall, lists, flags, threads, bus, context
<1>3. ASSUME NEW t \in Threads, Open(t) PROVE Owners'
  <2>1. UNCHANGED <<central, threads, lists, flags, freed, deviceHandle, manager, bus, made>>
    BY <1>3 DEF Open
  <2> QED
    BY SMTT(40), <1>3, OpenDoes, <2>1 DEF at, goto, return, free, taken, noCall, lists, flags, threads,
        bus, context, Calls, HandleCalls, released
<1>4. ASSUME NEW t \in Threads, OpenRegister(t) PROVE Owners'
  BY <1>4 DEF OpenRegister, at, return, free, released, noCall, threads, bus, context, Calls,
      HandleCalls
<1>5. ASSUME NEW t \in Threads, Close(t) PROVE Owners'
  BY <1>5 DEF Close, at, goto, return, free, taken, noCall, lists, flags, threads, bus,
      context, Calls, HandleCalls
<1>6. ASSUME NEW t \in Threads, CloseUnregister(t) PROVE Owners'
  BY <1>6 DEF CloseUnregister, at, goto, free, flags, threads, bus, context, Calls, HandleCalls
<1>7. ASSUME NEW t \in Threads, CloseIfAttached(t) PROVE Owners'
  BY <1>7 DEF CloseIfAttached, at, goto, lists, flags, threads, bus, context, Calls, HandleCalls
<1>8. ASSUME NEW t \in Threads, CloseClear(t) PROVE Owners'
  BY <1>8 DEF CloseClear, at, goto, lists, threads, bus, context, Calls, HandleCalls
<1>9. ASSUME NEW t \in Threads, CloseJoin(t) PROVE Owners'
  BY <1>9 DEF CloseJoin, at, goto, lists, flags, threads, bus, context, Calls, HandleCalls
<1>10. ASSUME NEW t \in Threads, CloseEnd(t) PROVE Owners'
  BY <1>10 DEF CloseEnd, at, return, released, noCall, lists, threads, bus, context, Calls,
      HandleCalls
<1>11. ASSUME NEW t \in Threads, GetAttachedDevices(t) PROVE Owners'
  BY <1>11 DEF GetAttachedDevices, at, return, free, noCall, lists, flags, threads, bus,
      context, Calls, HandleCalls
<1>12. ASSUME NEW t \in Threads, ManagerOpen(t) PROVE Owners'
  <2>1. UNCHANGED <<central, threads, lists, flags, freed, deviceHandle, manager, bus, made>>
    BY <1>12 DEF ManagerOpen
  <2>2. CASE return(t) /\ UNCHANGED lock
    BY <2>1, <2>2 DEF return, noCall, context, lists, flags, threads, bus
  <2>3. CASE /\ free("managerOpenCloseLock")
             /\ goto(t, "enlist") \/ goto(t, "managerOpened")
             /\ lock' = taken("managerOpenCloseLock", t)
    <3>1. \A u \in Threads : call[u].step \notin ManagerSteps
      BY <2>3 DEF free
    <3>2. /\ \A u \in Threads \ {t} : call'[u] = call[u]
          /\ call'[t].step \in {"enlist", "managerOpened"} /\ call'[t].on = call[t].on
      BY <2>3 DEF goto
    <3>3. /\ \A h \in Handles : lock'[h] = lock[h]
          /\ lock'["managerLock"] = lock["managerLock"]
          /\ lock'["activeDevicesLock"] = lock["activeDevicesLock"]
          /\ lock'["managerOpenCloseLock"] = t
      BY <2>3 DEF taken
    <3>4. at(t, "managerOpen")
      BY <1>12 DEF ManagerOpen
    <3> QED
      BY <2>1, <3>1, <3>2, <3>3, <3>4 DEF context, at, lists, flags, threads, bus
  <2> QED
    BY <1>12, <2>2, <2>3, ManagerOpenDoes
<1>13. ASSUME NEW t \in Threads, ManagerEnlist(t) PROVE Owners'
  BY <1>13 DEF ManagerEnlist, at, goto, free, lists, flags, threads, bus, context, Calls,
      HandleCalls
<1>14. ASSUME NEW t \in Threads, ManagerClose(t) PROVE Owners'
  BY SMTT(40), <1>14 DEF ManagerClose, at, goto, return, free, taken, noCall, lists, flags, threads,
      bus, context, Calls, HandleCalls
<1>15. ASSUME NEW t \in Threads, ManagerDelist(t) PROVE Owners'
  BY <1>15 DEF ManagerDelist, at, goto, free, lists, flags, threads, bus, context, Calls,
      HandleCalls
<1>16. ASSUME NEW t \in Threads, ManagerEnd(t) PROVE Owners'
  BY <1>16 DEF ManagerEnd, at, return, released, noCall, lists, flags, threads, bus, context,
      Calls, HandleCalls
<1>17. CASE PollBegin
  BY <1>17 DEF PollBegin, in, free, taken, lists, flags, threads, bus, context
<1>18. CASE InitialTest
  BY <1>18 DEF InitialTest, in, lists, flags, threads, bus, context
<1>19. CASE InitialActivate
  BY <1>19 DEF InitialActivate, in, lists, flags, threads, bus, context
<1>20. CASE InitialEvent
  <2>1. UNCHANGED <<threads, call, lists, flags, freed, deviceHandle, bus, made>>
    BY <1>20 DEF InitialEvent
  <2> QED
    BY <1>20, InitialEventDoes, <2>1 DEF in, released, lists, flags, threads, bus, context,
        afterFind, free, taken, noCall
<1>21. CASE BuildList
  BY <1>21 DEF BuildList, in, lists, flags, threads, bus, context
<1>22. CASE AttachEvent
  <2>1. UNCHANGED <<threads, call, ActiveDevices, flags, freed, deviceHandle, bus, made>>
    BY <1>22 DEF AttachEvent
  <2> QED
    BY <1>22, AttachEventDoes, <2>1 DEF in, listening, released, flags, threads, bus, context,
        afterFind, free, taken, noCall
<1>23. CASE FindActiveDevice
  BY <1>23 DEF FindActiveDevice, in, afterFind, free, lists, flags, threads, bus, context
<1>24. CASE AttachActiveDevice
  <2>1. UNCHANGED <<threads, call, lists, opened, usbError, freed, manager, bus, made>>
    BY <1>24 DEF AttachActiveDevice
  <2> QED
    BY <1>24, AttachActiveDeviceDoes, <2>1 DEF in, afterFind, free, taken, lists, threads,
        bus, context, released, noCall
<1>25. CASE UseFreed
  BY <1>25 DEF UseFreed, in, lists, flags, threads, bus, context
<1>26. CASE StartRead
  BY <1>26 DEF StartRead, in, afterFind, released, noCall, lists, flags, bus, context
<1>27. CASE CheckError
  BY <1>27 DEF CheckError, in, free, lists, flags, threads, bus, context
<1>28. CASE DetachEvent
  <2>1. UNCHANGED <<threads, call, ActiveDevices, flags, freed, deviceHandle, bus, made>>
    BY <1>28 DEF DetachEvent
  <2> QED
    BY <1>28, DetachEventDoes, <2>1 DEF in, listening, released, flags, threads, bus, context,
        afterFind, free, taken, noCall
<1>29. CASE DetachFind
  <2>1. UNCHANGED <<threads, call, lists, flags, freed, deviceHandle, manager, bus, made>>
    BY <1>29 DEF DetachFind
  <2> QED
    BY <1>29, DetachFindDoes, <2>1 DEF in, free, taken, lists, flags, threads, bus, context,
        afterFind, released, noCall
<1>30. CASE DetachClear
  BY <1>30 DEF DetachClear, in, lists, threads, bus, context
<1>31. CASE DetachJoin
  BY <1>31 DEF DetachJoin, in, released, lists, flags, threads, bus, context
<1>32. CASE DetachHandler
  BY <1>32 DEF DetachHandler, in, lists, flags, threads, bus, context
<1>33. CASE Detached
  <2>1. UNCHANGED <<lock, threads, call, lists, opened, attached, freed, deviceHandle,
      manager, bus, made>>
    BY <1>33 DEF Detached
  <2> QED
    BY <1>33, DetachedDoes, <2>1 DEF in, noCall, lists, threads, bus, context, afterFind,
        free, taken, released
<1>34. CASE ManagerHandled
  BY <1>34 DEF ManagerHandled, in, free, taken, noCall, lists, flags, threads, bus, context
<1>35. CASE PollEnd
  BY <1>35 DEF PollEnd, in, lists, flags, threads, bus, context
<1>36. CASE FindActiveDevices
  <2>1. UNCHANGED <<threads, call, lists, flags, freed, deviceHandle, manager, bus, made>>
    BY <1>36 DEF FindActiveDevices
  <2> QED
    BY <1>36, FindActiveDevicesDoes, <2>1 DEF in, free, taken, released, lists, flags,
        threads, bus, context, afterFind, noCall
<1>37. ASSUME NEW r \in Readers, Read(r) PROVE Owners'
  BY <1>37 DEF Read, lists, flags, bus, context
<1>38. ASSUME NEW r \in Readers, ReadExit(r) PROVE Owners'
  BY <1>38 DEF ReadExit, exit, lists, bus, context
<1>39. ASSUME NEW d \in Handles, Plug(d) PROVE Owners'
  BY <1>39 DEF Plug, lists, flags, threads, context
<1>40. ASSUME NEW d \in Handles, Unplug(d) PROVE Owners'
  BY <1>40 DEF Unplug, lists, flags, threads, context
<1> QED
  BY <1>0, <1>1, <1>2, <1>3, <1>4, <1>5, <1>6, <1>7, <1>8, <1>9, <1>10, <1>11, <1>12, <1>13,
      <1>14, <1>15, <1>16, <1>17, <1>18, <1>19, <1>20, <1>21, <1>22, <1>23, <1>24, <1>25,
      <1>26, <1>27, <1>28, <1>29, <1>30, <1>31, <1>32, <1>33, <1>34, <1>35, <1>36, <1>37,
      <1>38, <1>39, <1>40 DEF Next, CentralStep, CallStep, ReaderStep

LEMMA ListedStep ==
  ASSUME IInv, [Next]_vars
  PROVE  Listed'
<1> USE Names DEF IInv, TypeOK, CentralStates, CallStates, ManagerValues, Owners, InPoll,
    Listed, ManagerSteps
<1>0. CASE UNCHANGED vars
  BY <1>0 DEF vars, context, at, in
<1>1. ASSUME NEW t \in Threads, Call(t) PROVE Listed'
  <2>1. PICK op \in Calls : call'[t].step = op
    BY <1>1, CallDoes
  <2>2. \A u \in Threads \ {t} : call'[u] = call[u]
    BY <1>1, CallDoes
  <2>3. op \notin {"managerOpened", "delist", "managerClosed"} /\ call[t].step = "none"
    BY <1>1, CallDoes DEF Calls, HandleCalls, noCall
  <2>4. UNCHANGED <<central, manager>>
    BY <1>1, CallDoes
  <2>5. \A step \in {"managerOpened", "delist", "managerClosed"} : \A u \in Threads :
          call'[u].step = step <=> call[u].step = step
    BY <2>1, <2>2, <2>3
  <2> QED
    BY <2>4, <2>5 DEF at
<1>2. ASSUME NEW t \in Threads, Delete(t) PROVE Listed'
  BY <1>2 DEF Delete, at, noCall, lists, flags, threads, bus
<1>3. ASSUME NEW t \in Threads, Open(t) PROVE Listed'
  BY SMTT(40), <1>3 DEF Open, at, goto, return, free, taken, noCall, lists, flags, threads, bus
<1>4. ASSUME NEW t \in Threads, OpenRegister(t) PROVE Listed'
  BY <1>4 DEF OpenRegister, at, return, free, released, noCall, threads, bus
<1>5. ASSUME NEW t \in Threads, Close(t) PROVE Listed'
  BY SMTT(40), <1>5 DEF Close, at, goto, return, free, taken, noCall, lists, flags, threads, bus
<1>6. ASSUME NEW t \in Threads, CloseUnregister(t) PROVE Listed'
  BY <1>6 DEF CloseUnregister, at, goto, free, flags, threads, bus
<1>7. ASSUME NEW t \in Threads, CloseIfAttached(t) PROVE Listed'
  BY <1>7 DEF CloseIfAttached, at, goto, lists, flags, threads, bus
<1>8. ASSUME NEW t \in Threads, CloseClear(t) PROVE Listed'
  BY <1>8 DEF CloseClear, at, goto, lists, threads, bus
<1>9. ASSUME NEW t \in Threads, CloseJoin(t) PROVE Listed'
  BY <1>9 DEF CloseJoin, at, goto, lists, flags, threads, bus
<1>10. ASSUME NEW t \in Threads, CloseEnd(t) PROVE Listed'
  BY <1>10 DEF CloseEnd, at, return, released, noCall, lists, threads, bus
<1>11. ASSUME NEW t \in Threads, GetAttachedDevices(t) PROVE Listed'
  BY <1>11 DEF GetAttachedDevices, at, return, free, noCall, lists, flags, threads, bus
<1>12. ASSUME NEW t \in Threads, ManagerOpen(t) PROVE Listed'
  BY SMTT(40), <1>12 DEF ManagerOpen, at, goto, return, free, taken, noCall, lists, flags, threads, bus
<1>13. ASSUME NEW t \in Threads, ManagerEnlist(t) PROVE Listed'
  BY <1>13 DEF ManagerEnlist, at, goto, free, lists, flags, threads, bus
<1>14. ASSUME NEW t \in Threads, ManagerClose(t) PROVE Listed'
  <2>1. UNCHANGED <<central, threads, lists, flags, freed, deviceHandle, bus, made>>
    BY <1>14 DEF ManagerClose
  <2>2. CASE return(t) /\ UNCHANGED <<lock, manager>>
    <3>1. at(t, "managerClose")
      BY <1>14 DEF ManagerClose
    <3> QED
      BY <2>1, <2>2, <3>1 DEF return, noCall, at
  <2>3. CASE /\ free("managerOpenCloseLock")
             /\ \/ goto(t, "managerClosed") /\ manager.state = "INACTIVE"
                \/ goto(t, "delist") /\ manager.state # "INACTIVE"
             /\ manager'.opened /\ manager'.listed = manager.listed
    <3>1. \A u \in Threads : call[u].step \notin ManagerSteps
      BY <2>3 DEF free
    <3>2. manager.state = "INACTIVE" => ~manager.listed
      BY <3>1 DEF at
    <3>3. /\ \A u \in Threads \ {t} : call'[u] = call[u]
          /\ call'[t].step = IF manager.state = "INACTIVE" THEN "managerClosed" ELSE "delist"
      BY <2>3 DEF goto
    <3> QED
      BY <2>1, <2>3, <3>1, <3>2, <3>3 DEF at
  <2> QED
    BY <1>14, <2>2, <2>3, ManagerCloseDoes
<1>15. ASSUME NEW t \in Threads, ManagerDelist(t) PROVE Listed'
  BY <1>15 DEF ManagerDelist, at, goto, free, lists, flags, threads, bus
<1>16. ASSUME NEW t \in Threads, ManagerEnd(t) PROVE Listed'
  BY <1>16 DEF ManagerEnd, at, return, released, noCall, lists, flags, threads, bus
<1>17. CASE PollBegin
  BY <1>17 DEF PollBegin, in, free, taken, lists, flags, threads, bus, at
<1>18. CASE InitialTest
  BY <1>18 DEF InitialTest, in, lists, flags, threads, bus, at
<1>19. CASE InitialActivate
  BY <1>19 DEF InitialActivate, in, lists, flags, threads, bus, at
<1>20. CASE InitialEvent
  <2>1. UNCHANGED <<threads, call, lists, flags, freed, deviceHandle, bus, made>>
    BY <1>20 DEF InitialEvent
  <2> QED
    BY <1>20, InitialEventDoes, <2>1 DEF in, released, lists, flags, threads, bus, at,
        afterFind, free, taken, noCall, KeepsManager
<1>21. CASE BuildList
  BY <1>21 DEF BuildList, in, lists, flags, threads, bus, at
<1>22. CASE AttachEvent
  <2>1. UNCHANGED <<threads, call, ActiveDevices, flags, freed, deviceHandle, bus, made>>
    BY <1>22 DEF AttachEvent
  <2> QED
    BY <1>22, AttachEventDoes, <2>1 DEF in, listening, released, flags, threads, bus, at,
        afterFind, free, taken, noCall, KeepsManager
<1>23. CASE FindActiveDevice
  BY <1>23 DEF FindActiveDevice, in, afterFind, free, lists, flags, threads, bus, at
<1>24. CASE AttachActiveDevice
  <2>1. UNCHANGED <<threads, call, lists, opened, usbError, freed, manager, bus, made>>
    BY <1>24 DEF AttachActiveDevice
  <2> QED
    BY <1>24, AttachActiveDeviceDoes, <2>1 DEF in, afterFind, free, taken, lists, threads,
        bus, at, released, noCall, KeepsManager
<1>25. CASE UseFreed
  BY <1>25 DEF UseFreed, in, lists, flags, threads, bus, at
<1>26. CASE StartRead
  BY <1>26 DEF StartRead, in, afterFind, released, noCall, lists, flags, bus, at
<1>27. CASE CheckError
  BY <1>27 DEF CheckError, in, free, lists, flags, threads, bus, at
<1>28. CASE DetachEvent
  <2>1. UNCHANGED <<threads, call, ActiveDevices, flags, freed, deviceHandle, bus, made>>
    BY <1>28 DEF DetachEvent
  <2> QED
    BY <1>28, DetachEventDoes, <2>1 DEF in, listening, released, flags, threads, bus, at,
        afterFind, free, taken, noCall, KeepsManager
<1>29. CASE DetachFind
  <2>1. UNCHANGED <<threads, call, lists, flags, freed, deviceHandle, manager, bus, made>>
    BY <1>29 DEF DetachFind
  <2> QED
    BY <1>29, DetachFindDoes, <2>1 DEF in, free, taken, lists, flags, threads, bus, at,
        afterFind, released, noCall, KeepsManager
<1>30. CASE DetachClear
  BY <1>30 DEF DetachClear, in, lists, threads, bus, at
<1>31. CASE DetachJoin
  BY <1>31 DEF DetachJoin, in, released, lists, flags, threads, bus, at
<1>32. CASE DetachHandler
  BY <1>32 DEF DetachHandler, in, lists, flags, threads, bus, at
<1>33. CASE Detached
  <2>1. UNCHANGED <<lock, threads, call, lists, opened, attached, freed, deviceHandle,
      manager, bus, made>>
    BY <1>33 DEF Detached
  <2> QED
    BY <1>33, DetachedDoes, <2>1 DEF in, noCall, lists, threads, bus, at, afterFind, free,
        taken, released, KeepsManager
<1>34. CASE ManagerHandled
  BY <1>34 DEF ManagerHandled, in, free, taken, noCall, lists, flags, threads, bus, at
<1>35. CASE PollEnd
  BY <1>35 DEF PollEnd, in, lists, flags, threads, bus, at
<1>36. CASE FindActiveDevices
  <2>1. UNCHANGED <<threads, call, lists, flags, freed, deviceHandle, manager, bus, made>>
    BY <1>36 DEF FindActiveDevices
  <2> QED
    BY <1>36, FindActiveDevicesDoes, <2>1 DEF in, free, taken, released, lists, flags,
        threads, bus, at, afterFind, noCall, KeepsManager
<1>37. ASSUME NEW r \in Readers, Read(r) PROVE Listed'
  BY <1>37 DEF Read, lists, flags, bus, at
<1>38. ASSUME NEW r \in Readers, ReadExit(r) PROVE Listed'
  BY <1>38 DEF ReadExit, exit, lists, bus, at
<1>39. ASSUME NEW d \in Handles, Plug(d) PROVE Listed'
  BY <1>39 DEF Plug, lists, flags, threads, at
<1>40. ASSUME NEW d \in Handles, Unplug(d) PROVE Listed'
  BY <1>40 DEF Unplug, lists, flags, threads, at
<1> QED
  BY <1>0, <1>1, <1>2, <1>3, <1>4, <1>5, <1>6, <1>7, <1>8, <1>9, <1>10, <1>11, <1>12, <1>13,
      <1>14, <1>15, <1>16, <1>17, <1>18, <1>19, <1>20, <1>21, <1>22, <1>23, <1>24, <1>25,
      <1>26, <1>27, <1>28, <1>29, <1>30, <1>31, <1>32, <1>33, <1>34, <1>35, <1>36, <1>37,
      <1>38, <1>39, <1>40 DEF Next, CentralStep, CallStep, ReaderStep

LEMMA ClosingStep ==
  ASSUME IInv, [Next]_vars
  PROVE  Closing'
<1> USE Names DEF IInv, TypeOK, CentralStates, CallStates, Owners, HandleSteps, CloseSteps,
    Closing
<1>0. CASE UNCHANGED vars
  BY <1>0 DEF vars, context, at, in
<1>1. ASSUME NEW t \in Threads, Call(t) PROVE Closing'
  <2>1. \A u \in Threads : call'[u].step \in CloseSteps => call'[u] = call[u]
    BY <1>1, CallDoes DEF Calls, HandleCalls
  <2> QED
    BY <1>1, <2>1, CallDoes DEF lists, flags
<1>2. ASSUME NEW t \in Threads, Delete(t) PROVE Closing'
  BY <1>2 DEF Delete, at, noCall, lists, flags, threads, bus
<1>3. ASSUME NEW t \in Threads, Open(t) PROVE Closing'
  <2>1. UNCHANGED <<central, threads, lists, flags, freed, deviceHandle, manager, bus, made>>
    BY <1>3 DEF Open
  <2> QED
    BY <1>3, OpenDoes, <2>1 DEF at, goto, return, free, taken, noCall, lists, flags, threads,
        bus, Calls, HandleCalls, released
<1>4. ASSUME NEW t \in Threads, OpenRegister(t) PROVE Closing'
  BY <1>4 DEF OpenRegister, at, return, free, released, noCall, threads, bus, Calls, HandleCalls
<1>5. ASSUME NEW t \in Threads, Close(t) PROVE Closing'
  <2>1. UNCHANGED <<central, threads, lists, flags, freed, deviceHandle, manager, bus, made>>
    BY <1>5 DEF Close
  <2> QED
    BY <1>5, CloseDoes, <2>1, SMTT(30) DEF at, goto, return, free, taken, noCall, lists,
        flags, threads, bus, Calls, HandleCalls, released
<1>6. ASSUME NEW t \in Threads, CloseUnregister(t) PROVE Closing'
  BY <1>6 DEF CloseUnregister, at, goto, free, flags, threads, bus, Calls, HandleCalls
<1>7. ASSUME NEW t \in Threads, CloseIfAttached(t) PROVE Closing'
  BY <1>7 DEF CloseIfAttached, at, goto, lists, flags, threads, bus, Calls, HandleCalls
<1>8. ASSUME NEW t \in Threads, CloseClear(t) PROVE Closing'
  BY <1>8 DEF CloseClear, at, goto, lists, threads, bus, Calls, HandleCalls
<1>9. ASSUME NEW t \in Threads, CloseJoin(t) PROVE Closing'
  BY <1>9 DEF CloseJoin, at, goto, lists, flags, threads, bus, Calls, HandleCalls
<1>10. ASSUME NEW t \in Threads, CloseEnd(t) PROVE Closing'
  BY <1>10 DEF CloseEnd, at, return, released, noCall, lists, threads, bus, Calls, HandleCalls
<1>11. ASSUME NEW t \in Threads, GetAttachedDevices(t) PROVE Closing'
  BY <1>11 DEF GetAttachedDevices, at, return, free, noCall, lists, flags, threads, bus,
      Calls, HandleCalls
<1>12. ASSUME NEW t \in Threads, ManagerOpen(t) PROVE Closing'
  <2>1. UNCHANGED <<central, threads, lists, flags, freed, deviceHandle, manager, bus, made>>
    BY <1>12 DEF ManagerOpen
  <2> QED
    BY <1>12, ManagerOpenDoes, <2>1 DEF at, goto, return, free, taken, noCall, lists, flags,
        threads, bus, Calls, HandleCalls, released
<1>13. ASSUME NEW t \in Threads, ManagerEnlist(t) PROVE Closing'
  BY <1>13 DEF ManagerEnlist, at, goto, free, lists, flags, threads, bus, Calls, HandleCalls
<1>14. ASSUME NEW t \in Threads, ManagerClose(t) PROVE Closing'
  <2>1. UNCHANGED <<central, threads, lists, flags, freed, deviceHandle, bus, made>>
    BY <1>14 DEF ManagerClose
  <2> QED
    BY <1>14, ManagerCloseDoes, <2>1 DEF at, goto, return, free, taken, noCall, lists, flags,
        threads, bus, Calls, HandleCalls, released
<1>15. ASSUME NEW t \in Threads, ManagerDelist(t) PROVE Closing'
  BY <1>15 DEF ManagerDelist, at, goto, free, lists, flags, threads, bus, Calls, HandleCalls
<1>16. ASSUME NEW t \in Threads, ManagerEnd(t) PROVE Closing'
  BY <1>16 DEF ManagerEnd, at, return, released, noCall, lists, flags, threads, bus, Calls,
      HandleCalls
<1>17. CASE PollBegin
  BY <1>17 DEF PollBegin, in, free, taken, lists, flags, threads, bus, at
<1>18. CASE InitialTest
  BY <1>18 DEF InitialTest, in, lists, flags, threads, bus, at
<1>19. CASE InitialActivate
  BY <1>19 DEF InitialActivate, in, lists, flags, threads, bus, at
<1>20. CASE InitialEvent
  <2>1. UNCHANGED <<threads, call, lists, flags, freed, deviceHandle, bus, made>>
    BY <1>20 DEF InitialEvent
  <2> QED
    BY <1>20, InitialEventDoes, <2>1 DEF in, released, lists, flags, threads, bus, at,
        afterFind, free, taken, noCall
<1>21. CASE BuildList
  BY <1>21 DEF BuildList, in, lists, flags, threads, bus, at
<1>22. CASE AttachEvent
  <2>1. UNCHANGED <<threads, call, ActiveDevices, flags, freed, deviceHandle, bus, made>>
    BY <1>22 DEF AttachEvent
  <2> QED
    BY <1>22, AttachEventDoes, <2>1 DEF in, listening, released, flags, threads, bus, at,
        afterFind, free, taken, noCall
<1>23. CASE FindActiveDevice
  BY <1>23 DEF FindActiveDevice, in, afterFind, free, lists, flags, threads, bus, at
<1>24. CASE AttachActiveDevice
  <2>1. UNCHANGED <<threads, call, lists, opened, usbError, freed, manager, bus, made>>
    BY <1>24 DEF AttachActiveDevice
  <2> QED
    BY <1>24, AttachActiveDeviceDoes, <2>1 DEF in, afterFind, free, taken, lists, threads,
        bus, at, released, noCall
<1>25. CASE UseFreed
  BY <1>25 DEF UseFreed, in, lists, flags, threads, bus, at
<1>26. CASE StartRead
  BY <1>26 DEF StartRead, in, afterFind, released, noCall, lists, flags, bus, at
<1>27. CASE CheckError
  BY <1>27 DEF CheckError, in, free, lists, flags, threads, bus, at
<1>28. CASE DetachEvent
  <2>1. UNCHANGED <<threads, call, ActiveDevices, flags, freed, deviceHandle, bus, made>>
    BY <1>28 DEF DetachEvent
  <2> QED
    BY <1>28, DetachEventDoes, <2>1 DEF in, listening, released, flags, threads, bus, at,
        afterFind, free, taken, noCall
<1>29. CASE DetachFind
  <2>1. UNCHANGED <<threads, call, lists, flags, freed, deviceHandle, manager, bus, made>>
    BY <1>29 DEF DetachFind
  <2> QED
    BY <1>29, DetachFindDoes, <2>1 DEF in, free, taken, lists, flags, threads, bus, at,
        afterFind, released, noCall
<1>30. CASE DetachClear
  BY <1>30 DEF DetachClear, in, lists, threads, bus, at
<1>31. CASE DetachJoin
  BY <1>31 DEF DetachJoin, in, released, lists, flags, threads, bus, at
<1>32. CASE DetachHandler
  BY <1>32 DEF DetachHandler, in, lists, flags, threads, bus, at
<1>33. CASE Detached
  <2>1. UNCHANGED <<lock, threads, call, lists, opened, attached, freed, deviceHandle,
      manager, bus, made>>
    BY <1>33 DEF Detached
  <2> QED
    BY <1>33, DetachedDoes, <2>1 DEF in, noCall, lists, threads, bus, at, afterFind, free,
        taken, released
<1>34. CASE ManagerHandled
  BY <1>34 DEF ManagerHandled, in, free, taken, noCall, lists, flags, threads, bus, at
<1>35. CASE PollEnd
  BY <1>35 DEF PollEnd, in, lists, flags, threads, bus, at
<1>36. CASE FindActiveDevices
  <2>1. UNCHANGED <<threads, call, lists, flags, freed, deviceHandle, manager, bus, made>>
    BY <1>36 DEF FindActiveDevices
  <2> QED
    BY <1>36, FindActiveDevicesDoes, <2>1 DEF in, free, taken, released, lists, flags,
        threads, bus, at, afterFind, noCall
<1>37. ASSUME NEW r \in Readers, Read(r) PROVE Closing'
  BY <1>37 DEF Read, lists, flags, bus, at
<1>38. ASSUME NEW r \in Readers, ReadExit(r) PROVE Closing'
  BY <1>38 DEF ReadExit, exit, lists, bus, at
<1>39. ASSUME NEW d \in Handles, Plug(d) PROVE Closing'
  BY <1>39 DEF Plug, lists, flags, threads, at
<1>40. ASSUME NEW d \in Handles, Unplug(d) PROVE Closing'
  BY <1>40 DEF Unplug, lists, flags, threads, at
<1> QED
  BY <1>0, <1>1, <1>2, <1>3, <1>4, <1>5, <1>6, <1>7, <1>8, <1>9, <1>10, <1>11, <1>12, <1>13,
      <1>14, <1>15, <1>16, <1>17, <1>18, <1>19, <1>20, <1>21, <1>22, <1>23, <1>24, <1>25,
      <1>26, <1>27, <1>28, <1>29, <1>30, <1>31, <1>32, <1>33, <1>34, <1>35, <1>36, <1>37,
      <1>38, <1>39, <1>40 DEF Next, CentralStep, CallStep, ReaderStep

-----------------------------------------------------------------------------
LEMMA Begins == Init => IInv
<1> SUFFICES ASSUME Init PROVE IInv
  OBVIOUS
<1> USE Names DEF Init
<1>1. \A t \in Threads : call[t].step = "none"
  BY DEF noCall
<1>2. central.pc = "idle"
  OBVIOUS
<1>3. TypeOK
  <2>1. central \in CentralStates
    BY DEF CentralStates, Places
  <2>2. noCall \in CallStates
    BY DEF CallStates, Steps, noCall
  <2>3. manager \in ManagerValues
    BY DEF ManagerValues, ManagerStates
  <2> QED
    BY <2>1, <2>2, <2>3 DEF TypeOK
<1>4. Owners
  BY <1>1, <1>2 DEF Owners, InPoll, HandleSteps, CloseSteps, ManagerSteps
<1>5. Listed
  BY <1>1 DEF Listed, at
<1>6. Closing
  BY <1>1, <1>2 DEF Closing, CloseSteps
<1> QED
  BY <1>3, <1>4, <1>5, <1>6 DEF IInv

LEMMA Inductive == Spec => []IInv
<1>1. IInv /\ [Next]_vars => IInv'
  BY TypeStep, OwnersStep, ListedStep, ClosingStep DEF IInv
<1> QED
  BY <1>1, Begins, PTL DEF Spec

\* Every variable keeps the values that the code can give it, for any handles,
\* users and calls in handlers.
THEOREM TypeCorrect == Spec => []TypeOK
<1>1. IInv => TypeOK
  BY DEF IInv
<1> QED
  BY <1>1, Inductive, PTL

\* Once CPhidgetManager_close has returned, no handler of the manager runs: a
\* manager whose handler is called is listed, as the poll holds managerLock and
\* ManagerDelist takes it, and a listed manager is opened or about to be.
THEOREM HandlersStop == Spec => []ManagerQuiet
<1>1. IInv => ManagerQuiet
  <2> SUFFICES ASSUME IInv, context(Central) \in {"managerAttach", "managerDetach"}
               PROVE  manager.opened \/ \E t \in Threads : at(t, "managerOpened")
    BY DEF ManagerQuiet
  <2>1. central.pc \in {"inInitial", "inManagerAttach", "inManagerDetach"}
    BY Names DEF context
  <2>2. manager.listed
    BY <2>1 DEF IInv, Listed
  <2> QED
    BY <2>2 DEF IInv, Listed
<1> QED
  BY <1>1, Inductive, PTL

\* A set whose elements are all the same has at most one.
LEMMA AtMostOne ==
  ASSUME NEW S, \A t, u \in S : t = u
  PROVE  Cardinality(S) <= 1
<1>1. CASE S = {}
  <2>1. Cardinality(S) = 0
    BY <1>1, FS_EmptySet
  <2> QED
    BY <2>1
<1>2. CASE S # {}
  <2>1. PICK t : S = {t}
    BY <1>2
  <2>2. Cardinality(S) = 1
    BY <2>1, FS_Singleton
  <2> QED
    BY <2>2
<1> QED
  BY <1>1, <1>2

\* One thread at a time joins the read thread of a handle and closes its device:
\* two closes exclude each other with openCloseLock, and a close that has left
\* ActiveDevices excludes the detach, which found the handle there and keeps
\* activeDevicesLock.
THEOREM DeviceClosedOnce == Spec => []ClosedOnce
<1>1. IInv => ClosedOnce
  <2> SUFFICES ASSUME IInv, NEW h \in Handles
               PROVE  Cardinality({t \in Threads : at(t, "join") /\ call[t].on = h}
                        \cup {t \in {Central} : in("detachJoin") /\ central.dev = h}) <= 1
    BY DEF ClosedOnce
  <2> DEFINE joiners == {t \in Threads : at(t, "join") /\ call[t].on = h}
             detaches == {t \in {Central} : in("detachJoin") /\ central.dev = h}
  <2>1. \A t, u \in joiners : t = u
    BY DEF IInv, Owners, HandleSteps, CloseSteps, at
  <2>2. joiners = {} \/ detaches = {}
    <3>1. \A t \in joiners : h \notin ActiveDevices
      BY DEF IInv, Closing, CloseSteps, at
    <3>2. \A t \in detaches : h \in ActiveDevices
      BY DEF IInv, Closing, in
    <3> QED
      BY <3>1, <3>2
  <2>3. \A t, u \in joiners \cup detaches : t = u
    BY <2>1, <2>2
  <2> QED
    BY <2>3, AtMostOne
<1> QED
  BY <1>1, Inductive, PTL
-----------------------------------------------------------------------------
\* A close, or the detach, waits for the read thread of the handle.
Awaited(h) ==
  \/ \E t \in Threads : at(t, "join") /\ call[t].on = h
  \/ in("detachJoin") /\ central.dev = h

\* The read threads that run are the last of their handle, which is attached or
\* waits for them, when data handlers do not close handles.
Reading ==
  /\ \A r \in Readers :
       /\ call[r].step \notin {"close"} \cup CloseSteps
       /\ reader[r] # "none" =>
            /\ readThread[r[1]] = r /\ thread_status[r[1]]
            /\ r[1] \in attached \/ Awaited(r[1])
       /\ reader[r] = "transfer" => deviceHandle[r[1]] # "none"
  /\ in("inAttach") =>
       /\ central.dev \in attached
       /\ \A r \in Readers : r[1] = central.dev => reader[r] = "none"

LEMMA ReadingKept ==
  ASSUME Reading, NEW t \in Threads,
         UNCHANGED <<central, threads, attached, deviceHandle>>,
         \A u \in Threads \ {t} : call'[u] = call[u],
         /\ call[t].step # "join" /\ call'[t].step # "join"
         /\ (t \in Readers => call'[t].step \notin {"close"} \cup CloseSteps)
  PROVE  Reading'
<1> USE Names
<1>1. \A h : Awaited(h) => Awaited(h)'
  BY DEF Awaited, at, in
<1> QED
  BY <1>1 DEF Reading, threads, in

LEMMA ReadingStep ==
  ASSUME "close" \notin CallsIn["data"], IInv, Reading, [Next]_vars
  PROVE  Reading'
<1> USE Names DEF IInv, TypeOK, CentralStates, CallStates, Owners, Closing, HandleSteps,
    CloseSteps, Reading, Awaited
<1>0. CASE UNCHANGED vars
  BY <1>0 DEF vars, context, at, in
<1>1. ASSUME NEW t \in Threads, Call(t) PROVE Reading'
  <2>1. call[t].step # "join" /\ call'[t].step # "join"
        /\ (t \in Readers => call'[t].step \notin {"close"} \cup CloseSteps)
    <3>1. PICK op \in CallsIn[context(t)] \ {"delete"} :
            op \in Calls /\ call'[t].step = op /\ call[t] = noCall
      BY <1>1, CallDoes
    <3>2. t \in Readers => context(t) = "data"
      BY <1>1, CallDoes DEF context
    <3> QED
      BY <3>1, <3>2 DEF noCall, Calls, HandleCalls, CloseSteps
  <2>2. \A u \in Threads \ {t} : call'[u] = call[u]
    BY <1>1, CallDoes DEF return, goto
  <2>3. UNCHANGED <<central, threads, attached, deviceHandle>>
    BY <1>1, CallDoes DEF flags
  <2> QED
    BY <2>1, <2>2, <2>3, ReadingKept
<1>2. ASSUME NEW t \in Threads, Delete(t) PROVE Reading'
  BY <1>2 DEF Delete, at, noCall, lists, flags, threads, bus, in
<1>3. ASSUME NEW t \in Threads, Open(t) PROVE Reading'
  <2>1. call[t].step # "join" /\ call'[t].step # "join"
        /\ (t \in Readers => call'[t].step \notin {"close"} \cup CloseSteps)
    BY <1>3, OpenDoes DEF Open, return, goto, noCall, at
  <2>2. \A u \in Threads \ {t} : call'[u] = call[u]
    BY <1>3, OpenDoes DEF return, goto
  <2>3. UNCHANGED <<central, threads, attached, deviceHandle>>
    BY <1>3 DEF Open, flags
  <2> QED
    BY <2>1, <2>2, <2>3, ReadingKept
<1>4. ASSUME NEW t \in Threads, OpenRegister(t) PROVE Reading'
  BY <1>4 DEF OpenRegister, at, return, free, released, noCall, threads, bus, in, Calls,
      HandleCalls
<1>5. ASSUME NEW t \in Threads, Close(t) PROVE Reading'
  <2>1. call[t].step # "join" /\ call'[t].step # "join"
        /\ (t \in Readers => call'[t].step \notin {"close"} \cup CloseSteps)
    <3>1. call[t].step = "close"
      BY <1>5 DEF Close, at
    <3>2. t \notin Readers
      BY <3>1
    <3> QED
      BY <1>5, <3>1, <3>2, CloseDoes DEF return, goto, noCall, at
  <2>2. \A u \in Threads \ {t} : call'[u] = call[u]
    BY <1>5, CloseDoes DEF return, goto
  <2>3. UNCHANGED <<central, threads, attached, deviceHandle>>
    BY <1>5 DEF Close, flags
  <2> QED
    BY <2>1, <2>2, <2>3, ReadingKept
<1>6. ASSUME NEW t \in Threads, CloseUnregister(t) PROVE Reading'
  BY <1>6 DEF CloseUnregister, at, goto, free, flags, threads, bus, in, Calls, HandleCalls
<1>7. ASSUME NEW t \in Threads, CloseIfAttached(t) PROVE Reading'
  BY <1>7 DEF CloseIfAttached, at, goto, lists, flags, threads, bus, in, Calls, HandleCalls
<1>8. ASSUME NEW t \in Threads, CloseClear(t) PROVE Reading'
  BY <1>8 DEF CloseClear, at, goto, lists, threads, bus, in, Calls, HandleCalls
<1>9. ASSUME NEW t \in Threads, CloseJoin(t) PROVE Reading'
  <2>1. \A r \in Readers : r[1] = call[t].on => reader[r] = "none"
    <3> SUFFICES ASSUME NEW r \in Readers, r[1] = call[t].on, reader[r] # "none" PROVE FALSE
      OBVIOUS
    <3>1. r = t
      BY <1>9 DEF CloseJoin, joined
    <3>2. call[t].step = "join"
      BY <1>9 DEF CloseJoin, at
    <3> QED
      BY <3>1, <3>2
  <2>2. /\ call'[t].step = "closed"
        /\ \A u \in Threads \ {t} : call'[u] = call[u]
    BY <1>9 DEF CloseJoin, goto
  <2>3. /\ deviceHandle' = [deviceHandle EXCEPT ![call[t].on] = "none"]
        /\ call[t].step = "join" /\ call[t].on \in Handles
        /\ UNCHANGED <<central, threads, attached>>
    BY <1>9 DEF CloseJoin, flags, at
  <2>4. ASSUME NEW r \in Readers PROVE call'[r].step \notin {"close"} \cup CloseSteps
    BY <2>2, <2>3
  <2>5. ASSUME NEW r \in Readers, reader[r] # "none"
        PROVE  /\ readThread[r[1]] = r /\ thread_status[r[1]]
               /\ r[1] \in attached \/ Awaited(r[1])'
    <3>1. r[1] # call[t].on
      BY <2>1, <2>5
    <3> QED
      BY <2>2, <2>3, <2>5, <3>1 DEF at, in
  <2>6. ASSUME NEW r \in Readers, reader[r] = "transfer" PROVE deviceHandle'[r[1]] # "none"
    <3>1. r[1] # call[t].on /\ r[1] \in Handles
      BY <2>1, <2>6 DEF Readers
    <3> QED
      BY <2>3, <2>6, <3>1
  <2> QED
    BY <2>3, <2>4, <2>5, <2>6 DEF threads, in
<1>10. ASSUME NEW t \in Threads, CloseEnd(t) PROVE Reading'
  BY <1>10 DEF CloseEnd, at, return, released, noCall, lists, threads, bus, in, Calls,
      HandleCalls
<1>11. ASSUME NEW t \in Threads, GetAttachedDevices(t) PROVE Reading'
  BY <1>11 DEF GetAttachedDevices, at, return, free, noCall, lists, flags, threads, bus, in,
      Calls, HandleCalls
<1>12. ASSUME NEW t \in Threads, ManagerOpen(t) PROVE Reading'
  BY <1>12 DEF ManagerOpen, at, goto, return, free, taken, noCall, lists, flags, threads, bus,
      in, Calls, HandleCalls
<1>13. ASSUME NEW t \in Threads, ManagerEnlist(t) PROVE Reading'
  BY <1>13 DEF ManagerEnlist, at, goto, free, lists, flags, threads, bus, in, Calls, HandleCalls
<1>14. ASSUME NEW t \in Threads, ManagerClose(t) PROVE Reading'
  <2>1. call[t].step # "join" /\ call'[t].step # "join"
        /\ (t \in Readers => call'[t].step \notin {"close"} \cup CloseSteps)
    BY <1>14, ManagerCloseDoes DEF ManagerClose, return, goto, noCall, at
  <2>2. \A u \in Threads \ {t} : call'[u] = call[u]
    BY <1>14, ManagerCloseDoes DEF return, goto
  <2>3. UNCHANGED <<central, threads, attached, deviceHandle>>
    BY <1>14 DEF ManagerClose, flags
  <2> QED
    BY <2>1, <2>2, <2>3, ReadingKept
<1>15. ASSUME NEW t \in Threads, ManagerDelist(t) PROVE Reading'
  BY <1>15 DEF ManagerDelist, at, goto, free, lists, flags, threads, bus, in, Calls, HandleCalls
<1>16. ASSUME NEW t \in Threads, ManagerEnd(t) PROVE Reading'
  BY <1>16 DEF ManagerEnd, at, return, released, noCall, lists, flags, threads, bus, in,
      Calls, HandleCalls
<1>17. CASE PollBegin
  BY <1>17 DEF PollBegin, in, free, taken, lists, flags, threads, bus, at
<1>18. CASE InitialTest
  BY <1>18 DEF InitialTest, in, lists, flags, threads, bus, at
<1>19. CASE InitialActivate
  BY <1>19 DEF InitialActivate, in, lists, flags, threads, bus, at
<1>20. CASE InitialEvent
  <2>1. UNCHANGED <<threads, call, lists, flags, freed, deviceHandle, bus, made>>
    BY <1>20 DEF InitialEvent
  <2> QED
    BY <1>20, InitialEventDoes, <2>1 DEF in, released, lists, flags, threads, bus, at,
        afterFind, free, taken, noCall
<1>21. CASE BuildList
  BY <1>21 DEF BuildList, in, lists, flags, threads, bus, at
<1>22. CASE AttachEvent
  <2>1. UNCHANGED <<threads, call, ActiveDevices, flags, freed, deviceHandle, bus, made>>
    BY <1>22 DEF AttachEvent
  <2> QED
    BY <1>22, AttachEventDoes, <2>1 DEF in, listening, released, flags, threads, bus, at,
        afterFind, free, taken, noCall
<1>23. CASE FindActiveDevice
  BY <1>23 DEF FindActiveDevice, in, afterFind, free, lists, flags, threads, bus, at
<1>24. CASE AttachActiveDevice
  <2>1. UNCHANGED <<threads, call, lists, opened, usbError, freed, manager, bus, made>>
    BY <1>24 DEF AttachActiveDevice
  <2> QED
    BY <1>24, AttachActiveDeviceDoes, <2>1 DEF in, afterFind, free, taken, lists, threads,
        bus, at, released, noCall
<1>25. CASE UseFreed
  BY <1>25 DEF UseFreed, in, lists, flags, threads, bus, at
<1>26. CASE StartRead
  BY <1>26 DEF StartRead, in, afterFind, released, noCall, lists, flags, bus, at
<1>27. CASE CheckError
  BY <1>27 DEF CheckError, in, free, lists, flags, threads, bus, at
<1>28. CASE DetachEvent
  <2>1. UNCHANGED <<threads, call, ActiveDevices, flags, freed, deviceHandle, bus, made>>
    BY <1>28 DEF DetachEvent
  <2> QED
    BY <1>28, DetachEventDoes, <2>1 DEF in, listening, released, flags, threads, bus, at,
        afterFind, free, taken, noCall
<1>29. CASE DetachFind
  <2>1. UNCHANGED <<threads, call, lists, flags, freed, deviceHandle, manager, bus, made>>
    BY <1>29 DEF DetachFind
  <2> QED
    BY <1>29, DetachFindDoes, <2>1 DEF in, free, taken, lists, flags, threads, bus, at,
        afterFind, released, noCall
<1>30. CASE DetachClear
  BY <1>30 DEF DetachClear, in, lists, threads, bus, at
<1>31. CASE DetachJoin
  <2>1. \A r \in Readers : r[1] = central.dev => reader[r] = "none"
    <3> SUFFICES ASSUME NEW r \in Readers, r[1] = central.dev, reader[r] # "none" PROVE FALSE
      OBVIOUS
    <3>1. r = Central
      BY <1>31 DEF DetachJoin, joined
    <3> QED
      BY <3>1
  <2>2. /\ deviceHandle' = [deviceHandle EXCEPT ![central.dev] = "none"]
        /\ UNCHANGED <<call, threads, attached>> /\ in("detachJoin")
        /\ central'.pc = "detached"
    BY <1>31 DEF DetachJoin, flags
  <2>3. ASSUME NEW r \in Readers, reader[r] # "none"
        PROVE  /\ readThread[r[1]] = r /\ thread_status[r[1]]
               /\ r[1] \in attached \/ Awaited(r[1])'
    <3>1. r[1] # central.dev
      BY <2>1, <2>3
    <3> QED
      BY <2>2, <2>3, <3>1 DEF at, in
  <2>4. ASSUME NEW r \in Readers, reader[r] = "transfer" PROVE deviceHandle'[r[1]] # "none"
    <3>1. r[1] # central.dev /\ r[1] \in Handles
      BY <2>1, <2>4 DEF Readers
    <3> QED
      BY <2>2, <2>4, <3>1
  <2> QED
    BY <2>2, <2>3, <2>4 DEF threads, in
<1>32. CASE DetachHandler
  BY <1>32 DEF DetachHandler, in, lists, flags, threads, bus, at
<1>33. CASE Detached
  <2>1. UNCHANGED <<lock, threads, call, lists, opened, attached, freed, deviceHandle,
      manager, bus, made>>
    BY <1>33 DEF Detached
  <2> QED
    BY <1>33, DetachedDoes, <2>1 DEF in, noCall, lists, threads, bus, at, afterFind, free,
        taken, released
<1>34. CASE ManagerHandled
  BY <1>34 DEF ManagerHandled, in, free, taken, noCall, lists, flags, threads, bus, at
<1>35. CASE PollEnd
  BY <1>35 DEF PollEnd, in, lists, flags, threads, bus, at
<1>36. CASE FindActiveDevices
  <2>1. UNCHANGED <<threads, call, lists, flags, freed, deviceHandle, manager, bus, made>>
    BY <1>36 DEF FindActiveDevices
  <2> QED
    BY <1>36, FindActiveDevicesDoes, <2>1 DEF in, free, taken, released, lists, flags,
        threads, bus, at, afterFind, noCall
<1>37. ASSUME NEW r \in Readers, Read(r) PROVE Reading'
  BY <1>37 DEF Read, lists, flags, bus, at, in
<1>38. ASSUME NEW r \in Readers, ReadExit(r) PROVE Reading'
  BY <1>38 DEF ReadExit, exit, lists, bus, at, in
<1>39. ASSUME NEW d \in Handles, Plug(d) PROVE Reading'
  BY <1>39 DEF Plug, lists, flags, threads, at, in
<1>40. ASSUME NEW d \in Handles, Unplug(d) PROVE Reading'
  BY <1>40 DEF Unplug, lists, flags, threads, at, in
<1> QED
  BY <1>0, <1>1, <1>2, <1>3, <1>4, <1>5, <1>6, <1>7, <1>8, <1>9, <1>10, <1>11, <1>12, <1>13,
      <1>14, <1>15, <1>16, <1>17, <1>18, <1>19, <1>20, <1>21, <1>22, <1>23, <1>24, <1>25,
      <1>26, <1>27, <1>28, <1>29, <1>30, <1>31, <1>32, <1>33, <1>34, <1>35, <1>36, <1>37,
      <1>38, <1>39, <1>40 DEF Next, CentralStep, CallStep, ReaderStep

\* Once CPhidget_close has returned, no data handler of the handle runs, and no
\* device is closed under a transfer, as long as no data handler closes a handle:
\* a thread does not wait for itself, and so a reader that closes its own handle
\* outlives it.
THEOREM QuietIfNotClosedByReader ==
  ASSUME "close" \notin CallsIn["data"]
  PROVE  Spec => []QuietWhenClosed
<1>1. Init => Reading
  <2> SUFFICES ASSUME Init PROVE Reading
    OBVIOUS
  <2>1. \A r \in Readers : call[r].step = "none" /\ reader[r] = "none"
    BY Names DEF Init, noCall
  <2>2. ~in("inAttach")
    BY DEF Init, in
  <2> QED
    BY <2>1, <2>2 DEF Reading, CloseSteps
<1>2. IInv /\ Reading /\ [Next]_vars => Reading'
  BY ReadingStep
<1>3. IInv /\ Reading => QuietWhenClosed
  <2> SUFFICES ASSUME IInv, Reading, NEW r \in Readers
               PROVE  /\ r[1] \notin opened => reader[r] = "none"
                      /\ reader[r] = "transfer" => deviceHandle[r[1]] # "none"
    BY DEF QuietWhenClosed
  <2>1. ASSUME reader[r] # "none" PROVE r[1] \in opened
    <3>1. CASE r[1] \in attached
      BY <3>1 DEF IInv, Closing
    <3>2. CASE \E t \in Threads : at(t, "join") /\ call[t].on = r[1]
      BY <3>2 DEF IInv, Closing, CloseSteps, at
    <3>3. CASE in("detachJoin") /\ central.dev = r[1]
      BY <3>3 DEF IInv, Closing, in
    <3> QED
      BY <2>1, <3>1, <3>2, <3>3 DEF Reading, Awaited
  <2> QED
    BY <2>1 DEF Reading
<1> QED
  BY <1>1, <1>2, <1>3, Inductive, PTL DEF Spec
-----------------------------------------------------------------------------
\* What the manager has been told of, at each point of the poll: nothing when it
\* was opened since the last poll, and in between what is left to tell.
Told ==
  /\ manager.listed /\ manager.state = "ACTIVATING" => manager.told = {}
  /\ in("activate") => manager.told = {}
  /\ central.pc \in {"initialEvents", "inInitial"} =>
       manager.state # "ACTIVATING" /\ manager.told \cup central.todo = AttachedDevices
  /\ listening /\ central.pc \notin {"initialEvents", "inInitial"} =>
       manager.told = AttachedDevices

LEMMA ToldKept ==
  ASSUME Told, UNCHANGED <<manager, AttachedDevices>>,
         central.pc \notin {"initialEvents", "inInitial"},
         central'.pc \notin {"activate", "initialEvents", "inInitial"}
  PROVE  Told'
  BY DEF Told, in, listening

LEMMA ToldByManager ==
  ASSUME Told, Owners, manager \in ManagerValues, NEW t \in Threads,
         ManagerEnlist(t) \/ ManagerClose(t) \/ ManagerDelist(t) \/ ManagerEnd(t)
  PROVE  Told'
<1> USE DEF Told, in, listening, ManagerValues
<1>1. UNCHANGED <<central, AttachedDevices>>
  BY DEF ManagerEnlist, ManagerClose, ManagerDelist, ManagerEnd, lists
<1>2. CASE ManagerEnlist(t)
  <2>1. /\ manager'.told = {} /\ manager'.state = "ACTIVATING"
    BY <1>2 DEF ManagerEnlist
  <2>2. central.pc \notin {"initialEvents", "inInitial"}
    BY <1>2, Names DEF ManagerEnlist, free, Owners, InPoll
  <2> QED
    BY <1>1, <2>1, <2>2
<1>3. CASE ManagerClose(t)
  <2>1. /\ manager'.told = manager.told /\ manager'.listed = manager.listed
        /\ manager'.state \in {"INACTIVE", manager.state}
    BY <1>3 DEF ManagerClose
  <2> QED
    BY <1>1, <2>1
<1>4. CASE ManagerDelist(t) \/ ManagerEnd(t)
  <2>1. /\ manager'.told = manager.told /\ manager'.state = manager.state
        /\ manager'.listed \in {FALSE, manager.listed}
    BY <1>4 DEF ManagerDelist, ManagerEnd
  <2> QED
    BY <1>1, <2>1
<1> QED
  BY <1>2, <1>3, <1>4

LEMMA ToldAtFirst ==
  ASSUME Told, TypeOK, InitialTest \/ InitialActivate \/ InitialEvent
  PROVE  Told'
<1> USE DEF Told, in, listening
<1>1. manager \in ManagerValues /\ central \in CentralStates /\ UNCHANGED AttachedDevices
  BY DEF TypeOK, InitialTest, InitialActivate, InitialEvent, lists
<1>2. CASE InitialTest
  <2>1. /\ central'.pc \in {"activate", "build"} /\ UNCHANGED manager
        /\ central'.pc = "activate" => manager.listed /\ manager.state = "ACTIVATING"
    BY <1>1, <1>2 DEF InitialTest, CentralStates
  <2> QED
    BY <1>1, <1>2, <2>1 DEF InitialTest
<1>3. CASE InitialActivate
  <2>1. /\ central'.pc = "initialEvents" /\ central'.todo = AttachedDevices
        /\ manager'.state = "ACTIVE" /\ manager'.told = manager.told
    BY <1>1, <1>3 DEF InitialActivate, CentralStates, ManagerValues
  <2> QED
    BY <1>1, <1>3, <2>1 DEF InitialActivate
<1>4. CASE InitialEvent /\ central.todo = {}
  <2>1. central'.pc = "build" /\ UNCHANGED manager
    BY <1>1, <1>4 DEF InitialEvent, CentralStates
  <2> QED
    BY <1>1, <1>4, <2>1 DEF InitialEvent
<1>5. CASE InitialEvent /\ central.todo # {}
  <2>1. PICK d \in central.todo :
          /\ central' = [central EXCEPT !.pc = "inInitial", !.dev = d, !.todo = @ \ {d}]
          /\ manager' = [manager EXCEPT !.told = @ \cup {d}]
    BY <1>5 DEF InitialEvent
  <2>2. /\ central'.pc = "inInitial" /\ central'.todo = central.todo \ {d}
        /\ manager'.told = manager.told \cup {d} /\ manager'.state = manager.state
    BY <1>1, <2>1 DEF CentralStates, ManagerValues
  <2>3. central.pc = "initialEvents"
    BY <1>5 DEF InitialEvent
  <2>4. manager'.told \cup central'.todo = manager.told \cup central.todo
    BY <2>2
  <2> QED
    BY <1>1, <2>2, <2>3, <2>4
<1> QED
  BY <1>2, <1>3, <1>4, <1>5

LEMMA ToldOfChange ==
  ASSUME Told, TypeOK, AttachEvent \/ DetachEvent
  PROVE  Told'
<1> USE DEF Told, in, listening
<1>1. manager \in ManagerValues /\ central \in CentralStates /\ central.pc = "scan"
  BY DEF TypeOK, AttachEvent, DetachEvent
<1>2. central'.pc \notin {"activate", "initialEvents", "inInitial"} /\ KeepsManager
  BY AttachEventDoes, DetachEventDoes
<1>3. manager'.listed /\ manager'.state = "ACTIVE" => manager'.told = AttachedDevices'
  <2>1. CASE AttachEvent
    <3>1. PICK d \in central.todo :
            /\ AttachedDevices' = AttachedDevices \cup {d}
            /\ \/ d \in AttachedDevices /\ UNCHANGED manager
               \/ listening /\ manager' = [manager EXCEPT !.told = @ \cup {d}]
               \/ ~listening /\ UNCHANGED manager
      BY <2>1 DEF AttachEvent
    <3>2. DOMAIN manager = DOMAIN manager' /\ "told" \in DOMAIN manager
      BY <1>1, <3>1 DEF ManagerValues
    <3> QED
      BY <1>1, <1>2, <3>1, <3>2 DEF KeepsManager
  <2>2. CASE DetachEvent
    BY <1>1, <1>2, <2>2 DEF DetachEvent, ManagerValues, KeepsManager
  <2> QED
    BY <2>1, <2>2
<1>4. ~listening => UNCHANGED manager
  BY DEF AttachEvent, DetachEvent
<1> QED
  BY <1>1, <1>2, <1>3, <1>4 DEF KeepsManager

LEMMA ToldStep ==
  ASSUME IInv, Told, [Next]_vars
  PROVE  Told'
<1> USE DEF IInv
<1>1. TypeOK /\ Owners /\ manager \in ManagerValues /\ central \in CentralStates
  BY DEF TypeOK
<1>2. CASE UNCHANGED <<manager, AttachedDevices, central>>
  BY <1>2 DEF Told, in, listening
<1>3. CASE \E t \in Threads : Call(t) \/ Delete(t)
  BY <1>2, <1>3 DEF Call, Delete, lists
<1>4. CASE \E t \in Threads : CallStep(t)
  BY <1>1, <1>2, <1>4, ToldByManager DEF CallStep, Open, OpenRegister, Close, CloseUnregister,
    CloseIfAttached, CloseClear, CloseJoin, CloseEnd, GetAttachedDevices, ManagerOpen, lists
<1>5. CASE \E r \in Readers : ReaderStep(r)
  BY <1>2, <1>5 DEF ReaderStep, Read, ReadExit, lists
<1>6. CASE \E d \in Handles : Plug(d) \/ Unplug(d)
  BY <1>2, <1>6 DEF Plug, Unplug, lists
<1>7. CASE ManagerHandled
  <2>1. /\ UNCHANGED <<manager, AttachedDevices>> /\ central'.todo = central.todo
        /\ central.pc = "inInitial" => central'.pc = "initialEvents"
        /\ central.pc # "inInitial" => central'.pc \in {"find", "detachFind"}
        /\ central.pc \in {"inInitial", "inManagerAttach", "inManagerDetach"}
    BY <1>1, <1>7 DEF ManagerHandled, CentralStates, lists
  <2> QED
    BY <2>1 DEF Told, in, listening
<1>8. CASE PollBegin \/ BuildList \/ FindActiveDevice \/ PollEnd \/ FindActiveDevices
  <2>1. /\ UNCHANGED <<manager, AttachedDevices>>
        /\ central.pc \notin {"initialEvents", "inInitial"}
        /\ central'.pc \notin {"activate", "initialEvents", "inInitial"}
    BY <1>1, <1>8 DEF PollBegin, BuildList, FindActiveDevice, PollEnd, FindActiveDevices, in,
      afterFind, lists, CentralStates
  <2> QED
    BY <2>1, ToldKept
<1>9. CASE AttachActiveDevice \/ UseFreed \/ StartRead \/ CheckError
  <2>1. /\ UNCHANGED <<manager, AttachedDevices>>
        /\ central.pc \notin {"initialEvents", "inInitial"}
        /\ central'.pc \notin {"activate", "initialEvents", "inInitial"}
    BY <1>1, <1>9 DEF AttachActiveDevice, UseFreed, StartRead, CheckError, in, afterFind,
      lists, CentralStates
  <2> QED
    BY <2>1, ToldKept
<1>10. CASE DetachFind \/ DetachClear \/ DetachJoin \/ DetachHandler \/ Detached
  <2>1. /\ UNCHANGED <<manager, AttachedDevices>>
        /\ central.pc \notin {"initialEvents", "inInitial"}
        /\ central'.pc \notin {"activate", "initialEvents", "inInitial"}
    BY <1>1, <1>10 DEF DetachFind, DetachClear, DetachJoin, DetachHandler, Detached, in,
      lists, CentralStates
  <2> QED
    BY <2>1, ToldKept
<1>11. CASE UNCHANGED vars
  BY <1>2, <1>11 DEF vars
<1> QED
  BY <1>1, <1>3, <1>4, <1>5, <1>6, <1>7, <1>8, <1>9, <1>10, <1>11, ToldAtFirst, ToldOfChange
    DEF Next, CentralStep

\* After each poll an active manager has been told of exactly the devices that are
\* attached, however its opens and closes fell between and into the polls: an
\* open enlists it with nothing told, outside the poll, the next poll tells it of
\* the attached ones, and from then on each attach and detach.
THEOREM ManagerInformed == Spec => []ManagerView
<1>1. Init => Told
  BY DEF Init, Told, in, listening
<1>2. IInv /\ Told /\ [Next]_vars => Told'
  BY ToldStep
<1>3. Told => ManagerView
  BY DEF Told, ManagerView, in
<1> QED
  BY <1>1, <1>2, <1>3, Inductive, PTL DEF Spec

-----------------------------------------------------------------------------
(***************************************************************************)
(* The refinement of HandleLife.                                           *)
(***************************************************************************)
\* A handle's device is in use while it is attached and until the one thread that
\* detached it has closed it; a close or a detach that is about to clear the
\* attached flag still finds it set.
Used ==
  /\ \A h \in Handles : h \in attached => deviceHandle[h] # "none"
  /\ \A h \in Handles :
       deviceHandle[h] # "none" /\ h \notin attached => \E t \in Threads : closes(t, h)
  /\ \A t \in Threads, h \in Handles : closes(t, h) => deviceHandle[h] # "none"
  /\ \A t \in Threads : at(t, "clear") => call[t].on \in attached
  /\ in("detachClear") => central.dev \in attached

\* The calls and the places of the poll that Used speaks of.
busy(c) == c.step \in {"clear", "join"}
detaching(c) == c.pc \in {"detachClear", "detachJoin"}

LEMMA InClosing ==
  /\ closing \subseteq Threads \X Handles
  /\ \A t \in Threads, h \in Handles : <<t, h>> \in closing <=> closes(t, h)
  /\ \A t, h : <<t, h>> \in closing => t \in Threads /\ h \in Handles
  BY DEF closing

\* A step that neither attaches, detaches nor closes a device.
LEMMA UsedKept ==
  ASSUME Used, attached' = attached,
         \A h \in Handles : deviceHandle'[h] = "none" <=> deviceHandle[h] = "none",
         \A t \in Threads : busy(call[t]) \/ busy(call'[t]) => call'[t] = call[t],
         detaching(central) \/ detaching(central') =>
           central'.pc = central.pc /\ central'.dev = central.dev
  PROVE  Used' /\ UNCHANGED <<attached, inUse, closing>>
<1>1. \A t \in Threads, h \in Handles : closes(t, h)' <=> closes(t, h)
  BY DEF closes, at, in, busy, detaching
<1>2. closing' = closing
  BY <1>1 DEF closing
<1>3. inUse' = inUse
  BY DEF inUse
<1>4. Used'
  <2>1. \A h \in Handles : h \in attached' => deviceHandle'[h] # "none"
    BY DEF Used
  <2>2. \A t \in Threads : at(t, "clear")' => call'[t].on \in attached'
    BY DEF Used, at, busy
  <2>3. in("detachClear")' => central'.dev \in attached'
    BY DEF Used, in, detaching
  <2> QED
    BY <1>1, <2>1, <2>2, <2>3 DEF Used
<1> QED
  BY <1>2, <1>3, <1>4

\* A step of a call that is not about to clear the attached flag or to join.
LEMMA UsedByCall ==
  ASSUME Used, NEW t \in Threads, UNCHANGED <<central, opened, attached, deviceHandle>>,
         \A u \in Threads : u # t => call'[u] = call[u],
         ~busy(call[t]), ~busy(call'[t])
  PROVE  Used' /\ UNCHANGED Life!lvars
<1>1. \A u \in Threads : busy(call[u]) \/ busy(call'[u]) => call'[u] = call[u]
  OBVIOUS
<1> QED
  BY <1>1, UsedKept DEF Life!lvars

\* A step of the poll that neither attaches nor detaches.
LEMMA UsedByPoll ==
  ASSUME Used, UNCHANGED <<call, opened, attached, deviceHandle>>,
         ~detaching(central), ~detaching(central')
  PROVE  Used' /\ UNCHANGED Life!lvars
  BY UsedKept DEF Life!lvars

\* The steps of an open, of a close and of the detach that HandleLife sees.
LEMMA OneMore ==
  ASSUME NEW t \in Threads, NEW h \in Handles,
         \A u \in Threads, g \in Handles :
           closes(u, g)' <=> closes(u, g) \/ (u = t /\ g = h)
  PROVE  closing' = closing \cup {<<t, h>>}
<1>1. \A c \in Threads \X Handles :
        closes(c[1], c[2])' <=> closes(c[1], c[2]) \/ c = <<t, h>>
  OBVIOUS
<1> QED
  BY <1>1 DEF closing

LEMMA OneLess ==
  ASSUME NEW t \in Threads, NEW h \in Handles,
         \A u \in Threads, g \in Handles :
           closes(u, g)' <=> closes(u, g) /\ ~(u = t /\ g = h)
  PROVE  closing' = closing \ {<<t, h>>}
<1>1. \A c \in Threads \X Handles :
        closes(c[1], c[2])' <=> closes(c[1], c[2]) /\ c # <<t, h>>
  OBVIOUS
<1> QED
  BY <1>1 DEF closing

\* Only handles that are open have a device in use.
LEMMA InUseIsOpened ==
  ASSUME IInv, Used
  PROVE  inUse \subseteq opened
<1> SUFFICES ASSUME NEW h \in Handles, deviceHandle[h] # "none" PROVE h \in opened
  BY DEF inUse
<1>1. CASE h \in attached
  BY <1>1 DEF IInv, Closing
<1>2. CASE h \notin attached
  <2>1. PICK t \in Threads : closes(t, h)
    BY <1>2 DEF Used
  <2> QED
    BY <2>1 DEF IInv, Closing, closes, at, in, CloseSteps
<1> QED
  BY <1>1, <1>2

LEMMA RegisterLives ==
  ASSUME IInv, Used, NEW t \in Threads, OpenRegister(t)
  PROVE  Used' /\ [Life!LifeNext]_Life!lvars
<1>1. /\ call' = [call EXCEPT ![t] = noCall] /\ opened' = opened \cup {call[t].on}
      /\ at(t, "register") /\ call[t].on \in Handles
      /\ UNCHANGED <<central, attached, deviceHandle>>
  BY DEF OpenRegister, return, at, IInv, Owners, HandleSteps
<1>2. \A u \in Threads : busy(call[u]) \/ busy(call'[u]) => call'[u] = call[u]
  BY <1>1 DEF IInv, TypeOK, busy, noCall, at
<1>3. Used' /\ UNCHANGED <<attached, inUse, closing>>
  BY <1>1, <1>2, UsedKept
<1>4. CASE call[t].on \in opened
  BY <1>1, <1>3, <1>4 DEF Life!lvars
<1>5. CASE call[t].on \notin opened
  <2>1. call[t].on \notin inUse
    BY <1>5, InUseIsOpened
  <2>2. Life!Open(call[t].on)
    BY <1>1, <1>3, <1>5, <2>1 DEF Life!Open
  <2> QED
    BY <1>1, <1>3, <2>2 DEF Life!LifeNext
<1> QED
  BY <1>4, <1>5

LEMMA IfAttachedLives ==
  ASSUME IInv, Used, NEW t \in Threads, CloseIfAttached(t)
  PROVE  Used' /\ UNCHANGED Life!lvars
<1>1. /\ at(t, "ifAttached") /\ UNCHANGED <<central, opened, attached, deviceHandle>>
      /\ call' = [call EXCEPT ![t].step = IF call[t].on \in attached THEN "clear" ELSE "closed"]
  BY DEF CloseIfAttached, goto, flags
<1>2. /\ \A u \in Threads : u # t => call'[u] = call[u]
      /\ call'[t].on = call[t].on
      /\ call'[t].step = IF call[t].on \in attached THEN "clear" ELSE "closed"
  BY <1>1 DEF IInv, TypeOK, CallStates
<1>3. \A u \in Threads, h \in Handles : closes(u, h)' <=> closes(u, h)
  BY <1>1, <1>2 DEF closes, at, in
<1>4. UNCHANGED Life!lvars
  BY <1>1, <1>3 DEF Life!lvars, closing, inUse
<1>5. Used'
  <2>1. \A u \in Threads : at(u, "clear")' => call'[u].on \in attached'
    BY <1>1, <1>2 DEF Used, at
  <2> QED
    BY <1>1, <1>3, <2>1 DEF Used, in
<1> QED
  BY <1>4, <1>5

\* Two closes of a handle exclude each other, and a close the detach.
LEMMA Alone ==
  ASSUME IInv, NEW t \in Threads, call[t].step \in CloseSteps \ {"unregister"}
  PROVE  /\ call[t].on \in Handles \cap opened
         /\ \A u \in Threads : u # t => ~closes(u, call[t].on)
         /\ at(t, "join") \/ ~closes(t, call[t].on)
         /\ \A u \in Threads :
              u # t /\ call[u].step \in HandleSteps => call[u].on # call[t].on
         /\ detaching(central) => central.dev # call[t].on
         /\ t = Central => ~detaching(central)
<1>1. call[t].on \in Handles /\ call[t].on \in opened /\ call[t].on \notin ActiveDevices
  BY DEF IInv, Owners, Closing, HandleSteps, CloseSteps
<1>2. detaching(central) => central.dev # call[t].on
  BY <1>1 DEF IInv, Closing, detaching
<1>3. \A u \in Threads :
        u # t /\ call[u].step \in HandleSteps => call[u].on # call[t].on
  BY DEF IInv, Owners, HandleSteps, CloseSteps
<1>4. t = Central => ~detaching(central)
  BY Names DEF IInv, Owners, CloseSteps, context, detaching
<1> QED
  BY <1>1, <1>2, <1>3, <1>4 DEF closes, at, in, detaching, HandleSteps, CloseSteps

LEMMA ClearLives ==
  ASSUME IInv, Used, NEW t \in Threads, CloseClear(t)
  PROVE  Used' /\ [Life!LifeNext]_Life!lvars
<1> DEFINE h == call[t].on
<1>1. /\ at(t, "clear") /\ attached' = attached \ {h}
      /\ UNCHANGED <<central, opened, deviceHandle>>
      /\ call' = [call EXCEPT ![t].step = "join"]
  BY DEF CloseClear, goto
<1>2. /\ \A u \in Threads : u # t => call'[u] = call[u]
      /\ call'[t].on = h /\ call'[t].step = "join"
  BY <1>1 DEF IInv, TypeOK, CallStates
<1>3. /\ h \in Handles /\ h \in attached /\ \A u \in Threads : ~closes(u, h)
      /\ \A u \in Threads : u # t /\ call[u].step \in HandleSteps => call[u].on # h
      /\ detaching(central) => central.dev # h
  <2>1. call[t].step \in CloseSteps \ {"unregister"} /\ ~at(t, "join")
    BY <1>1 DEF at, CloseSteps
  <2> QED
    BY <1>1, <2>1, Alone DEF Used
<1> HIDE DEF h
<1>4. \A u \in Threads, g \in Handles :
        closes(u, g)' <=> closes(u, g) \/ (u = t /\ g = h)
  BY <1>1, <1>2 DEF closes, at, in, h
<1>5. closing' = closing \cup {<<t, h>>}
  BY <1>3, <1>4, OneMore
<1>6. closing \cap (Threads \X {h}) = {}
  BY <1>3 DEF closing
<1>7. inUse' = inUse
  BY <1>1 DEF inUse
<1>8. Life!Detach(t, h)
  BY <1>1, <1>3, <1>5, <1>6, <1>7 DEF Life!Detach
<1>9. Used'
  <2>1. \A u \in Threads : at(u, "clear")' => call'[u].on \in attached'
    BY <1>1, <1>2, <1>3 DEF Used, at, HandleSteps, CloseSteps
  <2>2. in("detachClear")' => central'.dev \in attached'
    BY <1>1, <1>3 DEF Used, in, detaching
  <2>3. \A g \in Handles : g \in attached' => deviceHandle'[g] # "none"
    BY <1>1 DEF Used
  <2>4. ASSUME NEW g \in Handles, deviceHandle'[g] # "none", g \notin attached'
        PROVE  \E u \in Threads : closes(u, g)'
    BY <1>1, <1>4, <2>4 DEF Used
  <2>5. \A u \in Threads, g \in Handles : closes(u, g)' => deviceHandle'[g] # "none"
    BY <1>1, <1>3, <1>4 DEF Used
  <2> QED
    BY <2>1, <2>2, <2>3, <2>4, <2>5 DEF Used
<1> QED
  BY <1>3, <1>8, <1>9 DEF Life!LifeNext

LEMMA JoinLives ==
  ASSUME IInv, Used, NEW t \in Threads, CloseJoin(t)
  PROVE  Used' /\ [Life!LifeNext]_Life!lvars
<1> DEFINE h == call[t].on
<1>1. /\ at(t, "join") /\ deviceHandle' = [deviceHandle EXCEPT ![h] = "none"]
      /\ UNCHANGED <<central, opened, attached>>
      /\ call' = [call EXCEPT ![t].step = "closed"]
  BY DEF CloseJoin, goto, flags
<1>2. /\ \A u \in Threads : u # t => call'[u] = call[u]
      /\ call'[t].on = h /\ call'[t].step = "closed"
  BY <1>1 DEF IInv, TypeOK, CallStates
<1>3. /\ h \in Handles /\ \A u \in Threads : u # t => ~closes(u, h)
      /\ h \notin attached
      /\ t = Central => ~detaching(central)
  <2>1. call[t].step \in CloseSteps \ {"unregister"}
    BY <1>1 DEF at, CloseSteps
  <2>2. h \notin attached
    BY <1>1 DEF at, IInv, Closing
  <2> QED
    BY <2>1, <2>2, Alone
<1>4. closes(t, h)
  BY <1>1 DEF closes
<1>5. /\ deviceHandle'[h] = "none"
      /\ \A g \in Handles : g # h => deviceHandle'[g] = deviceHandle[g]
  BY <1>1, <1>3 DEF IInv, TypeOK
<1>6. \A u \in Threads, g \in Handles :
        closes(u, g)' <=> closes(u, g) /\ ~(u = t /\ g = h)
  BY <1>1, <1>2, <1>3 DEF closes, at, in, detaching
<1> HIDE DEF h
<1>7. closing' = closing \ {<<t, h>>}
  BY <1>3, <1>6, OneLess
<1>8. inUse' = inUse \ {h}
  BY <1>5 DEF inUse
<1>9. <<t, h>> \in closing /\ h \in inUse
  BY <1>3, <1>4, InClosing DEF Used, inUse
<1>10. Life!Release(t, h)
  BY <1>1, <1>7, <1>8, <1>9 DEF Life!Release
<1>11. Used'
  <2>1. \A u \in Threads : at(u, "clear")' => call'[u].on \in attached'
    BY <1>1, <1>2 DEF Used, at
  <2>2. in("detachClear")' => central'.dev \in attached'
    BY <1>1 DEF Used, in
  <2>3. \A g \in Handles : g \in attached' => deviceHandle'[g] # "none"
    BY <1>1, <1>3, <1>5 DEF Used
  <2>4. ASSUME NEW g \in Handles, deviceHandle'[g] # "none", g \notin attached'
        PROVE  \E u \in Threads : closes(u, g)'
    <3>1. g # h
      BY <1>5, <2>4
    <3>2. PICK u \in Threads : closes(u, g)
      BY <1>1, <1>5, <2>4, <3>1 DEF Used
    <3> QED
      BY <1>6, <3>1, <3>2
  <2>5. \A u \in Threads, g \in Handles : closes(u, g)' => deviceHandle'[g] # "none"
    BY <1>3, <1>5, <1>6 DEF Used
  <2> QED
    BY <2>1, <2>2, <2>3, <2>4, <2>5 DEF Used
<1> QED
  BY <1>3, <1>10, <1>11 DEF Life!LifeNext

LEMMA EndLives ==
  ASSUME IInv, Used, NEW t \in Threads, CloseEnd(t)
  PROVE  Used' /\ [Life!LifeNext]_Life!lvars
<1> DEFINE h == call[t].on
<1>1. /\ at(t, "closed") /\ call' = [call EXCEPT ![t] = noCall]
      /\ opened' = opened \ {h} /\ UNCHANGED <<central, attached, deviceHandle>>
  BY DEF CloseEnd, return
<1>2. \A u \in Threads : busy(call[u]) \/ busy(call'[u]) => call'[u] = call[u]
  BY <1>1 DEF IInv, TypeOK, busy, noCall, at
<1>3. Used' /\ UNCHANGED <<attached, inUse, closing>>
  BY <1>1, <1>2, UsedKept
<1>4. h \in opened /\ h \notin attached /\ h \in Handles /\ \A u \in Threads : ~closes(u, h)
  <2>1. call[t].step \in CloseSteps \ {"unregister"} /\ ~at(t, "join")
    BY <1>1 DEF at, CloseSteps
  <2>2. h \notin attached
    BY <1>1 DEF at, IInv, Closing
  <2> QED
    BY <2>1, <2>2, Alone
<1>5. h \notin inUse
  BY <1>4 DEF Used, inUse
<1>6. Life!Close(h)
  BY <1>1, <1>3, <1>4, <1>5 DEF Life!Close
<1> QED
  BY <1>3, <1>4, <1>6 DEF Life!LifeNext

LEMMA AttachLives ==
  ASSUME IInv, Used, AttachActiveDevice
  PROVE  Used' /\ [Life!LifeNext]_Life!lvars
<1> DEFINE h == central.dev
<1>1. /\ in("match") /\ central'.dev = central.dev /\ UNCHANGED <<call, opened>>
      /\ \/ /\ central'.pc = "inAttach" /\ h \in opened /\ free(h)
            /\ attached' = attached \cup {h}
            /\ deviceHandle' = [deviceHandle EXCEPT ![h] = "usable"]
         \/ /\ central'.pc = afterFind
            /\ UNCHANGED <<attached, deviceHandle>>
  BY AttachActiveDeviceDoes DEF AttachActiveDevice, IInv
<1>2. ~detaching(central) /\ ~detaching(central')
  BY <1>1 DEF in, detaching, afterFind
<1>3. CASE UNCHANGED <<attached, deviceHandle>>
  BY <1>1, <1>2, <1>3, UsedByPoll
<1>4. CASE /\ central'.pc = "inAttach" /\ h \in opened /\ free(h)
           /\ attached' = attached \cup {h}
           /\ deviceHandle' = [deviceHandle EXCEPT ![h] = "usable"]
  <2>1. h \in Handles /\ h \notin attached
    BY <1>1, <1>4 DEF IInv, TypeOK, Closing, in
  <2>2. /\ deviceHandle'[h] # "none"
        /\ \A g \in Handles : g # h => deviceHandle'[g] = deviceHandle[g]
    BY <1>4, <2>1 DEF IInv, TypeOK
  <2>3. \A u \in Threads : ~closes(u, h)
    BY <1>1, <1>2, <1>4, Names DEF closes, at, free, IInv, Owners, HandleSteps, CloseSteps,
       detaching, in
  <2>4. h \notin inUse
    BY <2>1, <2>3 DEF Used, inUse
  <2>5. \A u \in Threads, g \in Handles : closes(u, g)' <=> closes(u, g)
    BY <1>1, <1>2 DEF closes, at, in, detaching
  <2>6. closing' = closing
    BY <2>5 DEF closing
  <2> HIDE DEF h
  <2>7. inUse' = inUse \cup {h}
    BY <2>1, <2>2 DEF inUse
  <2>8. Life!Attach(h)
    BY <1>1, <1>4, <2>4, <2>6, <2>7 DEF Life!Attach
  <2>9. Used'
    <3>1. \A u \in Threads : at(u, "clear")' => call'[u].on \in attached'
      BY <1>1, <1>4 DEF Used, at
    <3>2. ~in("detachClear")'
      BY <1>2 DEF in, detaching
    <3>3. \A g \in Handles : g \in attached' => deviceHandle'[g] # "none"
      BY <1>4, <2>2 DEF Used
    <3>4. ASSUME NEW g \in Handles, deviceHandle'[g] # "none", g \notin attached'
          PROVE  \E u \in Threads : closes(u, g)'
      <4>1. g # h /\ g \notin attached
        BY <1>4, <3>4
      <4> QED
        BY <2>2, <2>5, <3>4, <4>1 DEF Used
    <3>5. \A u \in Threads, g \in Handles : closes(u, g)' => deviceHandle'[g] # "none"
      BY <2>2, <2>5 DEF Used
    <3> QED
      BY <3>1, <3>2, <3>3, <3>4, <3>5 DEF Used
  <2> QED
    BY <2>1, <2>8, <2>9 DEF Life!LifeNext
<1> QED
  BY <1>1, <1>3, <1>4

LEMMA FindLives ==
  ASSUME IInv, Used, DetachFind
  PROVE  Used' /\ UNCHANGED Life!lvars
<1>1. /\ UNCHANGED <<call, opened, attached, deviceHandle>>
      /\ in("detachFind") /\ central'.dev = central.dev
      /\ central'.pc \in {"detachClear", "scan"}
      /\ central'.pc = "detachClear" => central.dev \in attached
  <2>1. CASE central.dev \in ActiveDevices \cap attached
    BY <2>1, DetachFindDoes DEF DetachFind, IInv, flags
  <2>2. CASE central.dev \notin ActiveDevices \cap attached
    <3>1. central' = [central EXCEPT !.pc = "scan", !.detachList = @ \ {central.dev}]
      BY <2>2 DEF DetachFind
    <3>2. central'.pc = "scan"
      BY <3>1, MovesOff DEF IInv, Places
    <3> QED
      BY <3>2, DetachFindDoes DEF DetachFind, IInv, flags
  <2> QED
    BY <2>1, <2>2
<1>2. \A u \in Threads, h \in Handles : closes(u, h)' <=> closes(u, h)
  BY <1>1 DEF closes, at, in
<1>3. UNCHANGED Life!lvars
  BY <1>1, <1>2 DEF Life!lvars, closing, inUse
<1>4. Used'
  BY <1>1, <1>2 DEF Used, at, in
<1> QED
  BY <1>3, <1>4

\* The detach finds the handle attached, in the list, and so in no close that
\* has left the list.
LEMMA NoCloser ==
  ASSUME IInv, detaching(central)
  PROVE  /\ central.dev \in Handles
         /\ \A u \in Threads : ~at(u, "clear") \/ call[u].on # central.dev
         /\ \A u \in Threads : ~at(u, "join") \/ call[u].on # central.dev
<1>1. central.dev \in ActiveDevices
  BY DEF IInv, Closing, detaching
<1> QED
  BY <1>1 DEF IInv, TypeOK, Closing, CloseSteps, at

LEMMA DetachClearLives ==
  ASSUME IInv, Used, DetachClear
  PROVE  Used' /\ [Life!LifeNext]_Life!lvars
<1> DEFINE h == central.dev
<1>1. /\ in("detachClear") /\ attached' = attached \ {h}
      /\ UNCHANGED <<call, opened, deviceHandle>>
      /\ central' = [central EXCEPT !.pc = "detachJoin"]
  BY DEF DetachClear
<1>2. central'.pc = "detachJoin" /\ central'.dev = h
  BY <1>1 DEF IInv, TypeOK, CentralStates
<1>3. /\ h \in Handles /\ h \in attached
      /\ \A u \in Threads : ~at(u, "clear") \/ call[u].on # h
      /\ \A u \in Threads : ~at(u, "join") \/ call[u].on # h
  BY <1>1, NoCloser DEF Used, in, detaching
<1>4. \A u \in Threads : ~closes(u, h)
  BY <1>1, <1>3 DEF closes, in
<1>5. \A u \in Threads, g \in Handles :
        closes(u, g)' <=> closes(u, g) \/ (u = Central /\ g = h)
  BY <1>1, <1>2 DEF closes, at, in
<1> HIDE DEF h
<1>6. closing' = closing \cup {<<Central, h>>}
  BY <1>3, <1>5, OneMore, Names
<1>7. closing \cap (Threads \X {h}) = {}
  BY <1>4 DEF closing
<1>8. inUse' = inUse
  BY <1>1 DEF inUse
<1>9. Life!Detach(Central, h)
  BY <1>1, <1>3, <1>6, <1>7, <1>8 DEF Life!Detach
<1>10. Used'
  <2>1. \A u \in Threads : at(u, "clear")' => call'[u].on \in attached'
    BY <1>1, <1>3 DEF Used, at
  <2>2. ~in("detachClear")'
    BY <1>2 DEF in
  <2>3. \A g \in Handles : g \in attached' => deviceHandle'[g] # "none"
    BY <1>1 DEF Used
  <2>4. ASSUME NEW g \in Handles, deviceHandle'[g] # "none", g \notin attached'
        PROVE  \E u \in Threads : closes(u, g)'
    BY <1>1, <1>5, <2>4, Names DEF Used
  <2>5. \A u \in Threads, g \in Handles : closes(u, g)' => deviceHandle'[g] # "none"
    BY <1>1, <1>3, <1>5 DEF Used
  <2> QED
    BY <2>1, <2>2, <2>3, <2>4, <2>5 DEF Used
<1> QED
  BY <1>3, <1>9, <1>10, Names DEF Life!LifeNext

LEMMA DetachJoinLives ==
  ASSUME IInv, Used, DetachJoin
  PROVE  Used' /\ [Life!LifeNext]_Life!lvars
<1> DEFINE h == central.dev
<1>1. /\ in("detachJoin") /\ deviceHandle' = [deviceHandle EXCEPT ![h] = "none"]
      /\ UNCHANGED <<call, opened, attached>>
      /\ central' = [central EXCEPT !.pc = "detached"]
  BY DEF DetachJoin, flags
<1>2. central'.pc = "detached" /\ central'.dev = h
  BY <1>1 DEF IInv, TypeOK, CentralStates
<1>3. /\ h \in Handles /\ h \notin attached
      /\ \A u \in Threads : ~at(u, "join") \/ call[u].on # h
  BY <1>1, NoCloser DEF IInv, Closing, in, detaching
<1>4. closes(Central, h) /\ \A u \in Threads : closes(u, h) => u = Central
  BY <1>1, <1>3 DEF closes
<1>5. /\ deviceHandle'[h] = "none"
      /\ \A g \in Handles : g # h => deviceHandle'[g] = deviceHandle[g]
  BY <1>1, <1>3 DEF IInv, TypeOK
<1>6. \A u \in Threads, g \in Handles :
        closes(u, g)' <=> closes(u, g) /\ ~(u = Central /\ g = h)
  BY <1>1, <1>2, <1>3 DEF closes, at, in
<1> HIDE DEF h
<1>7. closing' = closing \ {<<Central, h>>}
  BY <1>3, <1>6, OneLess, Names
<1>8. inUse' = inUse \ {h}
  BY <1>5 DEF inUse
<1>9. <<Central, h>> \in closing /\ h \in inUse
  BY <1>3, <1>4, InClosing, Names DEF Used, inUse
<1>10. Life!Release(Central, h)
  BY <1>1, <1>7, <1>8, <1>9 DEF Life!Release
<1>11. Used'
  <2>1. \A u \in Threads : at(u, "clear")' => call'[u].on \in attached'
    BY <1>1 DEF Used, at
  <2>2. ~in("detachClear")'
    BY <1>2 DEF in
  <2>3. \A g \in Handles : g \in attached' => deviceHandle'[g] # "none"
    BY <1>1, <1>3, <1>5 DEF Used
  <2>4. ASSUME NEW g \in Handles, deviceHandle'[g] # "none", g \notin attached'
        PROVE  \E u \in Threads : closes(u, g)'
    <3>1. g # h
      BY <1>5, <2>4
    <3>2. PICK u \in Threads : closes(u, g)
      BY <1>1, <1>5, <2>4, <3>1 DEF Used
    <3> QED
      BY <1>6, <3>1, <3>2
  <2>5. \A u \in Threads, g \in Handles : closes(u, g)' => deviceHandle'[g] # "none"
    BY <1>4, <1>5, <1>6, Names DEF Used
  <2> QED
    BY <2>1, <2>2, <2>3, <2>4, <2>5 DEF Used
<1> QED
  BY <1>3, <1>10, <1>11, Names DEF Life!LifeNext

LEMMA LifeStep ==
  ASSUME IInv, Used, [Next]_vars
  PROVE  Used' /\ [Life!LifeNext]_Life!lvars
<1>1. ASSUME NEW t \in Threads, Call(t)
      PROVE  Used' /\ [Life!LifeNext]_Life!lvars
  <2>1. UNCHANGED <<central, opened, attached, deviceHandle>>
    BY <1>1, CallDoes DEF IInv, flags
  <2>2. /\ \A u \in Threads : u # t => call'[u] = call[u]
        /\ ~busy(call[t]) /\ ~busy(call'[t])
    BY <1>1, CallDoes DEF IInv, busy, noCall, Calls, HandleCalls
  <2> QED
    BY <2>1, <2>2, UsedByCall
<1>2. ASSUME NEW t \in Threads, Open(t)
      PROVE  Used' /\ [Life!LifeNext]_Life!lvars
  <2>1. UNCHANGED <<central, opened, attached, deviceHandle>>
    BY <1>2 DEF Open, flags
  <2>2. /\ \A u \in Threads : u # t => call'[u] = call[u]
        /\ ~busy(call[t]) /\ ~busy(call'[t])
    BY <1>2, OpenDoes DEF IInv, TypeOK, CallStates, Open, return, goto, at, busy, noCall
  <2> QED
    BY <2>1, <2>2, UsedByCall
<1>3. ASSUME NEW t \in Threads, Close(t)
      PROVE  Used' /\ [Life!LifeNext]_Life!lvars
  <2>1. UNCHANGED <<central, opened, attached, deviceHandle>>
    BY <1>3 DEF Close, flags
  <2>2. /\ \A u \in Threads : u # t => call'[u] = call[u]
        /\ ~busy(call[t]) /\ ~busy(call'[t])
    BY <1>3, CloseDoes DEF IInv, TypeOK, CallStates, Close, return, goto, at, busy, noCall
  <2> QED
    BY <2>1, <2>2, UsedByCall
<1>4. ASSUME NEW t \in Threads, ManagerOpen(t)
      PROVE  Used' /\ [Life!LifeNext]_Life!lvars
  <2>1. UNCHANGED <<central, opened, attached, deviceHandle>>
    BY <1>4 DEF ManagerOpen, flags
  <2>2. /\ \A u \in Threads : u # t => call'[u] = call[u]
        /\ ~busy(call[t]) /\ ~busy(call'[t])
    BY <1>4, ManagerOpenDoes DEF IInv, TypeOK, CallStates, ManagerOpen, return, goto, at,
       busy, noCall
  <2> QED
    BY <2>1, <2>2, UsedByCall
<1>5. ASSUME NEW t \in Threads, ManagerClose(t)
      PROVE  Used' /\ [Life!LifeNext]_Life!lvars
  <2>1. UNCHANGED <<central, opened, attached, deviceHandle>>
    BY <1>5 DEF ManagerClose, flags
  <2>2. /\ \A u \in Threads : u # t => call'[u] = call[u]
        /\ ~busy(call[t]) /\ ~busy(call'[t])
    BY <1>5, ManagerCloseDoes DEF IInv, TypeOK, CallStates, ManagerClose, return, goto, at,
       busy, noCall
  <2> QED
    BY <2>1, <2>2, UsedByCall
<1>6. ASSUME NEW t \in Threads, CloseUnregister(t)
      PROVE  Used' /\ [Life!LifeNext]_Life!lvars
  <2>1. UNCHANGED <<central, opened, attached, deviceHandle>>
    BY <1>6 DEF CloseUnregister, flags
  <2>2. /\ \A u \in Threads : u # t => call'[u] = call[u]
        /\ ~busy(call[t]) /\ ~busy(call'[t])
    BY <1>6 DEF CloseUnregister, IInv, TypeOK, CallStates, return, goto, at, busy, noCall
  <2> QED
    BY <2>1, <2>2, UsedByCall
<1>7. ASSUME NEW t \in Threads, GetAttachedDevices(t)
      PROVE  Used' /\ [Life!LifeNext]_Life!lvars
  <2>1. UNCHANGED <<central, opened, attached, deviceHandle>>
    BY <1>7 DEF GetAttachedDevices, flags
  <2>2. /\ \A u \in Threads : u # t => call'[u] = call[u]
        /\ ~busy(call[t]) /\ ~busy(call'[t])
    BY <1>7 DEF GetAttachedDevices, IInv, TypeOK, CallStates, return, goto, at, busy, noCall
  <2> QED
    BY <2>1, <2>2, UsedByCall
<1>8. ASSUME NEW t \in Threads, ManagerEnlist(t)
      PROVE  Used' /\ [Life!LifeNext]_Life!lvars
  <2>1. UNCHANGED <<central, opened, attached, deviceHandle>>
    BY <1>8 DEF ManagerEnlist, flags
  <2>2. /\ \A u \in Threads : u # t => call'[u] = call[u]
        /\ ~busy(call[t]) /\ ~busy(call'[t])
    BY <1>8 DEF ManagerEnlist, IInv, TypeOK, CallStates, return, goto, at, busy, noCall
  <2> QED
    BY <2>1, <2>2, UsedByCall
<1>9. ASSUME NEW t \in Threads, ManagerDelist(t)
      PROVE  Used' /\ [Life!LifeNext]_Life!lvars
  <2>1. UNCHANGED <<central, opened, attached, deviceHandle>>
    BY <1>9 DEF ManagerDelist, flags
  <2>2. /\ \A u \in Threads : u # t => call'[u] = call[u]
        /\ ~busy(call[t]) /\ ~busy(call'[t])
    BY <1>9 DEF ManagerDelist, IInv, TypeOK, CallStates, return, goto, at, busy, noCall
  <2> QED
    BY <2>1, <2>2, UsedByCall
<1>10. ASSUME NEW t \in Threads, ManagerEnd(t)
      PROVE  Used' /\ [Life!LifeNext]_Life!lvars
  <2>1. UNCHANGED <<central, opened, attached, deviceHandle>>
    BY <1>10 DEF ManagerEnd, flags
  <2>2. /\ \A u \in Threads : u # t => call'[u] = call[u]
        /\ ~busy(call[t]) /\ ~busy(call'[t])
    BY <1>10 DEF ManagerEnd, IInv, TypeOK, CallStates, return, goto, at, busy, noCall
  <2> QED
    BY <2>1, <2>2, UsedByCall
<1>11. ASSUME NEW t \in Threads, Delete(t)
      PROVE  Used' /\ [Life!LifeNext]_Life!lvars
  BY <1>11, UsedKept DEF Delete, flags, Life!lvars
<1>12. ASSUME NEW t \in Threads, OpenRegister(t)
      PROVE  Used' /\ [Life!LifeNext]_Life!lvars
  BY <1>12, RegisterLives
<1>13. ASSUME NEW t \in Threads, CloseIfAttached(t)
      PROVE  Used' /\ [Life!LifeNext]_Life!lvars
  BY <1>13, IfAttachedLives
<1>14. ASSUME NEW t \in Threads, CloseClear(t)
      PROVE  Used' /\ [Life!LifeNext]_Life!lvars
  BY <1>14, ClearLives
<1>15. ASSUME NEW t \in Threads, CloseJoin(t)
      PROVE  Used' /\ [Life!LifeNext]_Life!lvars
  BY <1>15, JoinLives
<1>16. ASSUME NEW t \in Threads, CloseEnd(t)
      PROVE  Used' /\ [Life!LifeNext]_Life!lvars
  BY <1>16, EndLives
<1>17. ASSUME PollBegin
      PROVE  Used' /\ [Life!LifeNext]_Life!lvars
  <2>1. UNCHANGED <<call, opened, attached, deviceHandle>>
    BY <1>17 DEF PollBegin, flags
  <2>2. ~detaching(central) /\ ~detaching(central')
    BY <1>17 DEF PollBegin, IInv, TypeOK, CentralStates, in, detaching, afterFind
  <2> QED
    BY <2>1, <2>2, UsedByPoll
<1>18. ASSUME InitialTest
      PROVE  Used' /\ [Life!LifeNext]_Life!lvars
  <2>1. UNCHANGED <<call, opened, attached, deviceHandle>>
    BY <1>18 DEF InitialTest, flags
  <2>2. ~detaching(central) /\ ~detaching(central')
    BY <1>18 DEF InitialTest, IInv, TypeOK, CentralStates, in, detaching, afterFind
  <2> QED
    BY <2>1, <2>2, UsedByPoll
<1>19. ASSUME InitialActivate
      PROVE  Used' /\ [Life!LifeNext]_Life!lvars
  <2>1. UNCHANGED <<call, opened, attached, deviceHandle>>
    BY <1>19 DEF InitialActivate, flags
  <2>2. ~detaching(central) /\ ~detaching(central')
    BY <1>19 DEF InitialActivate, IInv, TypeOK, CentralStates, in, detaching, afterFind
  <2> QED
    BY <2>1, <2>2, UsedByPoll
<1>20. ASSUME InitialEvent
      PROVE  Used' /\ [Life!LifeNext]_Life!lvars
  <2>1. UNCHANGED <<call, opened, attached, deviceHandle>>
    BY <1>20 DEF InitialEvent, flags
  <2>2. ~detaching(central) /\ ~detaching(central')
    BY <1>20, InitialEventDoes DEF InitialEvent, IInv, TypeOK, CentralStates, in, detaching,
       afterFind
  <2> QED
    BY <2>1, <2>2, UsedByPoll
<1>21. ASSUME BuildList
      PROVE  Used' /\ [Life!LifeNext]_Life!lvars
  <2>1. UNCHANGED <<call, opened, attached, deviceHandle>>
    BY <1>21 DEF BuildList, flags
  <2>2. ~detaching(central) /\ ~detaching(central')
    BY <1>21 DEF BuildList, IInv, TypeOK, CentralStates, in, detaching, afterFind
  <2> QED
    BY <2>1, <2>2, UsedByPoll
<1>22. ASSUME AttachEvent
      PROVE  Used' /\ [Life!LifeNext]_Life!lvars
  <2>1. UNCHANGED <<call, opened, attached, deviceHandle>>
    BY <1>22 DEF AttachEvent, flags
  <2>2. ~detaching(central) /\ ~detaching(central')
    BY <1>22, AttachEventDoes DEF AttachEvent, IInv, TypeOK, CentralStates, in, detaching,
       afterFind
  <2> QED
    BY <2>1, <2>2, UsedByPoll
<1>23. ASSUME FindActiveDevice
      PROVE  Used' /\ [Life!LifeNext]_Life!lvars
  <2>1. UNCHANGED <<call, opened, attached, deviceHandle>>
    BY <1>23 DEF FindActiveDevice, flags
  <2>2. ~detaching(central) /\ ~detaching(central')
    BY <1>23 DEF FindActiveDevice, IInv, TypeOK, CentralStates, in, detaching, afterFind
  <2> QED
    BY <2>1, <2>2, UsedByPoll
<1>24. ASSUME UseFreed
      PROVE  Used' /\ [Life!LifeNext]_Life!lvars
  <2>1. UNCHANGED <<call, opened, attached, deviceHandle>>
    BY <1>24 DEF UseFreed, flags
  <2>2. ~detaching(central) /\ ~detaching(central')
    BY <1>24 DEF UseFreed, IInv, TypeOK, CentralStates, in, detaching, afterFind
  <2> QED
    BY <2>1, <2>2, UsedByPoll
<1>25. ASSUME StartRead
      PROVE  Used' /\ [Life!LifeNext]_Life!lvars
  <2>1. UNCHANGED <<call, opened, attached, deviceHandle>>
    BY <1>25 DEF StartRead, flags
  <2>2. ~detaching(central) /\ ~detaching(central')
    BY <1>25 DEF StartRead, IInv, TypeOK, CentralStates, in, detaching, afterFind
  <2> QED
    BY <2>1, <2>2, UsedByPoll
<1>26. ASSUME CheckError
      PROVE  Used' /\ [Life!LifeNext]_Life!lvars
  <2>1. UNCHANGED <<call, opened, attached, deviceHandle>>
    BY <1>26 DEF CheckError, flags
  <2>2. ~detaching(central) /\ ~detaching(central')
    BY <1>26 DEF CheckError, IInv, TypeOK, CentralStates, in, detaching, afterFind
  <2> QED
    BY <2>1, <2>2, UsedByPoll
<1>27. ASSUME DetachEvent
      PROVE  Used' /\ [Life!LifeNext]_Life!lvars
  <2>1. UNCHANGED <<call, opened, attached, deviceHandle>>
    BY <1>27 DEF DetachEvent, flags
  <2>2. ~detaching(central) /\ ~detaching(central')
    BY <1>27, DetachEventDoes DEF DetachEvent, IInv, TypeOK, CentralStates, in, detaching,
       afterFind
  <2> QED
    BY <2>1, <2>2, UsedByPoll
<1>28. ASSUME DetachHandler
      PROVE  Used' /\ [Life!LifeNext]_Life!lvars
  <2>1. UNCHANGED <<call, opened, attached, deviceHandle>>
    BY <1>28 DEF DetachHandler, flags
  <2>2. ~detaching(central) /\ ~detaching(central')
    BY <1>28 DEF DetachHandler, IInv, TypeOK, CentralStates, in, detaching, afterFind
  <2> QED
    BY <2>1, <2>2, UsedByPoll
<1>29. ASSUME Detached
      PROVE  Used' /\ [Life!LifeNext]_Life!lvars
  <2>1. UNCHANGED <<call, opened, attached, deviceHandle>>
    BY <1>29 DEF Detached, flags
  <2>2. ~detaching(central) /\ ~detaching(central')
    BY <1>29, DetachedDoes DEF Detached, IInv, TypeOK, CentralStates, in, detaching,
       afterFind
  <2> QED
    BY <2>1, <2>2, UsedByPoll
<1>30. ASSUME ManagerHandled
      PROVE  Used' /\ [Life!LifeNext]_Life!lvars
  <2>1. UNCHANGED <<call, opened, attached, deviceHandle>>
    BY <1>30 DEF ManagerHandled, flags
  <2>2. ~detaching(central) /\ ~detaching(central')
    BY <1>30 DEF ManagerHandled, IInv, TypeOK, CentralStates, in, detaching, afterFind
  <2> QED
    BY <2>1, <2>2, UsedByPoll
<1>31. ASSUME PollEnd
      PROVE  Used' /\ [Life!LifeNext]_Life!lvars
  <2>1. UNCHANGED <<call, opened, attached, deviceHandle>>
    BY <1>31 DEF PollEnd, flags
  <2>2. ~detaching(central) /\ ~detaching(central')
    BY <1>31 DEF PollEnd, IInv, TypeOK, CentralStates, in, detaching, afterFind
  <2> QED
    BY <2>1, <2>2, UsedByPoll
<1>32. ASSUME FindActiveDevices
      PROVE  Used' /\ [Life!LifeNext]_Life!lvars
  <2>1. UNCHANGED <<call, opened, attached, deviceHandle>>
    BY <1>32 DEF FindActiveDevices, flags
  <2>2. ~detaching(central) /\ ~detaching(central')
    BY <1>32, FindActiveDevicesDoes DEF FindActiveDevices, IInv, TypeOK, CentralStates, in,
       detaching, afterFind
  <2> QED
    BY <2>1, <2>2, UsedByPoll
<1>33. CASE AttachActiveDevice
  BY <1>33, AttachLives
<1>34. CASE DetachFind
  BY <1>34, FindLives
<1>35. CASE DetachClear
  BY <1>35, DetachClearLives
<1>36. CASE DetachJoin
  BY <1>36, DetachJoinLives
<1>37. ASSUME NEW r \in Readers, Read(r)
      PROVE  Used' /\ [Life!LifeNext]_Life!lvars
  BY <1>37, UsedKept DEF Read, flags, Life!lvars
<1>38. ASSUME NEW r \in Readers, ReadExit(r)
      PROVE  Used' /\ [Life!LifeNext]_Life!lvars
  BY <1>38, UsedKept DEF ReadExit, flags, Life!lvars
<1>39. ASSUME NEW d \in Handles, Plug(d)
      PROVE  Used' /\ [Life!LifeNext]_Life!lvars
  BY <1>39, UsedKept DEF Plug, flags, Life!lvars
<1>40. ASSUME NEW d \in Handles, Unplug(d)
      PROVE  Used' /\ [Life!LifeNext]_Life!lvars
  <2>1. \A h \in Handles : deviceHandle'[h] = "none" <=> deviceHandle[h] = "none"
    BY <1>40 DEF Unplug, IInv, TypeOK
  <2> QED
    BY <1>40, <2>1, UsedKept DEF Unplug, flags, Life!lvars
<1>41. CASE UNCHANGED vars
  BY <1>41, UsedKept DEF vars, Life!lvars
<1> QED
  BY <1>1, <1>2, <1>3, <1>4, <1>5, <1>6, <1>7, <1>8, <1>9, <1>10, <1>11, <1>12, <1>13,
      <1>14, <1>15, <1>16, <1>17, <1>18, <1>19, <1>20, <1>21, <1>22, <1>23, <1>24, <1>25,
      <1>26, <1>27, <1>28, <1>29, <1>30, <1>31, <1>32, <1>33, <1>34, <1>35, <1>36, <1>37,
      <1>38, <1>39, <1>40, <1>41 DEF Next, CentralStep, CallStep, ReaderStep

\* EventDispatch implements HandleLife, for any handles, users and calls in
\* handlers: the test of the attached flag that CPhidget_close makes without a
\* lock (cphidget.c:513) sees the detach either not begun or done, since the
\* detach keeps activeDevicesLock from finding the handle in the list to closing
\* its device.  So a handle's device is closed by the one thread that detached it,
\* no close returns before that, and no attach comes between.
THEOREM LifeRefinement == Spec => ImplementsHandleLife
<1>1. ASSUME Init PROVE Life!LifeInit /\ Used
  <2>1. /\ \A t \in Threads : call[t].step = "none"
        /\ \A h \in Handles : deviceHandle[h] = "none"
        /\ central.pc = "idle" /\ attached = {} /\ opened = {}
    BY <1>1 DEF Init, noCall
  <2>2. \A t \in Threads, h \in Handles : ~closes(t, h)
    BY <2>1 DEF closes, at, in
  <2>3. Used
    BY <2>1, <2>2 DEF Used, at, in
  <2>4. inUse = {} /\ closing = {}
    BY <2>1, <2>2 DEF inUse, closing
  <2> QED
    BY <2>1, <2>3, <2>4 DEF Life!LifeInit
<1>2. IInv /\ Used /\ [Next]_vars => Used' /\ [Life!LifeNext]_Life!lvars
  BY LifeStep
<1> QED
  BY <1>1, <1>2, Inductive, PTL DEF Spec, ImplementsHandleLife, Life!LifeSpec
=============================================================================
