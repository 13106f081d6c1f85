---------------------------- MODULE MCOnlineList ----------------------------
(***************************************************************************)
(* OnlineList for TLC: one speaker that can connect twice and be steered   *)
(* by two apps, and a second speaker with an app of its own.               *)
(***************************************************************************)
EXTENDS OnlineList, TLC

CONSTANTS d1, d2, s1, s2, s3, a1, a2, a3

MCOwner == [b \in Bevs |-> IF b \in {s3, a3} THEN d2 ELSE d1]

=============================================================================
