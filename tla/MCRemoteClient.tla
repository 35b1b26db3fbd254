--------------------------- MODULE MCRemoteClient ---------------------------
(* Handles of one program on one server, for TLC. *)
EXTENDS RemoteClient
=============================================================================
