--------------------------- MODULE MCInterfaceKit ---------------------------
(***************************************************************************)
(* InterfaceKit for TLC: what two users call, and what the sensors measure.  *)
(***************************************************************************)
EXTENDS InterfaceKit

does(bound, first, second, set, arguments, sampled, values) ==
  [bound |-> bound, set |-> set,
   calls |-> [u \in Users |-> IF u = "a" THEN first ELSE second],
   arguments |-> arguments, sampled |-> sampled, values |-> values]

\* Outputs of two users together with the ratiometric mode; outputs of one with
\* data rates of the other; data rate and change trigger of one sensor.
scripts ==
  {does(3, {"output", "ratiometric"}, {"output"}, {}, {}, Sensors, {0}),
   does(2, {"rate"}, {"output"}, Sensors, {1, 3, 4}, {}, {0}),
   does(2, {"rate"}, {"trigger"}, {1}, {0, 1, 4, 5}, {1}, {0, 5})}
=============================================================================
