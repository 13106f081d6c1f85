------------------------------ MODULE MCVoice --------------------------------
(***************************************************************************)
(* Three singers: the one main asks for, whom both the server and the      *)
(* stick have, the one of the way online, who is nowhere, and the one of   *)
(* the way offline.                                                        *)
(***************************************************************************)
EXTENDS Voice
=============================================================================
