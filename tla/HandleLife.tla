----------------------------- MODULE HandleLife -----------------------------
(***************************************************************************)
(* What the library promises about the device of a handle, with no locks,   *)
(* polls or handlers: it is taken into use only for a handle that is open   *)
(* and has none in use; whoever detaches the handle, a close or the central *)
(* thread, is the one that gives the device back, once; and a handle is     *)
(* closed only when its device was given back.                             *)
(***************************************************************************)
CONSTANTS Handles, Threads

VARIABLES opened, attached,  \* the handles with that status flag
          inUse,             \* the handles whose device is open
          closing            \* <<t, h>>: the thread t is closing h's device

lvars == <<opened, attached, inUse, closing>>

LifeInit == opened = {} /\ attached = {} /\ inUse = {} /\ closing = {}

Open(h) ==
  /\ h \notin opened \cup inUse
  /\ opened' = opened \cup {h}
  /\ UNCHANGED <<attached, inUse, closing>>

Attach(h) ==
  /\ h \in opened \ inUse
  /\ attached' = attached \cup {h}
  /\ inUse' = inUse \cup {h}
  /\ UNCHANGED <<opened, closing>>

Detach(t, h) ==
  /\ h \in attached /\ closing \cap (Threads \X {h}) = {}
  /\ attached' = attached \ {h}
  /\ closing' = closing \cup {<<t, h>>}
  /\ UNCHANGED <<opened, inUse>>

Release(t, h) ==
  /\ <<t, h>> \in closing /\ h \in inUse
  /\ inUse' = inUse \ {h}
  /\ closing' = closing \ {<<t, h>>}
  /\ UNCHANGED <<opened, attached>>

Close(h) ==
  /\ h \in opened \ inUse
  /\ opened' = opened \ {h}
  /\ UNCHANGED <<attached, inUse, closing>>

LifeNext ==
  \E h \in Handles :
    \/ Open(h) \/ Attach(h) \/ Close(h)
    \/ \E t \in Threads : Detach(t, h) \/ Release(t, h)

LifeSpec == LifeInit /\ [][LifeNext]_lvars
=============================================================================
