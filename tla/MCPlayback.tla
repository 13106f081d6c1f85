----------------------------- MODULE MCPlayback -----------------------------
(***************************************************************************)
(* Playback for TLC. Process ids are interchangeable as long as no         *)
(* liveness property is checked.                                           *)
(***************************************************************************)
EXTENDS Playback, TLC

PidSymmetry == Permutations(Pids)

=============================================================================
