-------------------------- MODULE MCDeviceRegistry --------------------------
(***************************************************************************)
(* DeviceRegistry for TLC: two devices, each with a label of its own, and   *)
(* the requests the runs let the handles be opened with.                   *)
(***************************************************************************)
EXTENDS DeviceRegistry

labelOf == [d \in Devices |-> IF d = "d1" THEN "l1" ELSE "l2"]

any       == [mode |-> "any", serial |-> NoDevice, label |-> NoLabel]
serial(d) == [mode |-> "serial", serial |-> d, label |-> NoLabel]
label(l)  == [mode |-> "label", serial |-> NoDevice, label |-> l]

\* The two handles never ask for the same serial number, or for the same label,
\* but may both ask for the same device.
distinct == [h \in Handles |-> IF h = "a" THEN {serial("d1"), label("l2")}
                                         ELSE {serial("d2"), label("l1")}]
mixed == [h \in Handles |-> {any, serial("d1")}
                            \cup (IF h = "a" THEN {} ELSE {label("l1")})]
=============================================================================
