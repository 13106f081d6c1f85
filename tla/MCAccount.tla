----------------------------- MODULE MCAccount -----------------------------
(***************************************************************************)
(* Account for TLC: two apps and their users, two appids, two passwords    *)
(* and one speaker.                                                        *)
(***************************************************************************)
EXTENDS Account

=============================================================================
