------------------------------ MODULE MCRemote -------------------------------
(***************************************************************************)
(* One speaker, one window, and a user who does what the cfg allows.       *)
(***************************************************************************)
EXTENDS Remote
=============================================================================
