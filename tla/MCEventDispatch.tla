--------------------------- MODULE MCEventDispatch ---------------------------
(***************************************************************************)
(* EventDispatch for TLC: the calls that handlers make.                     *)
(***************************************************************************)
EXTENDS EventDispatch

\* Every call, but that a data handler does not close or delete the handle and
\* that no other handler but that of the detach deletes it.
handlerCalls ==
  [c \in Contexts |-> Calls \ CASE c = "data" -> {"close", "delete"}
                               [] c \in {"top", "detach"} -> {}
                               [] OTHER -> {"delete"}]
=============================================================================
