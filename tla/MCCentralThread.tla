-------------------------- MODULE MCCentralThread --------------------------
(***************************************************************************)
(* CentralThread for TLC.  Users are interchangeable.                      *)
(***************************************************************************)
EXTENDS CentralThread, TLC

UserSymmetry == Permutations(Users)
=============================================================================
