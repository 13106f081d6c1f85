------------------------------- MODULE Volume --------------------------------
(***************************************************************************)
(* The volume: the mixer's raw values, their percentages (SetVolume and    *)
(* GetVolume of device.c), and what UpVolume and DownVolume of player.c    *)
(* make of them. All numbers are natural where C divides them.             *)
(***************************************************************************)
EXTENDS Integers

CONSTANTS minv, maxv         \* the mixer's range
ASSUME RangeAssumption ==
  minv \in Int /\ maxv \in Int /\ maxv - minv > 10

Range == maxv - minv
GetVolume(raw) == ((raw - minv) * 100 + (Range \div 2)) \div Range
DividedFirst(volume) == minv + (volume \div 100) * Range  \* mutant of SetVolume
SetVolume(volume) == minv + (volume * Range) \div 100

(* From 90 on, and down to 10, only a local variable changes.              *)
UpPastTheEnd(raw) == SetVolume(GetVolume(raw) + 10)       \* mutant of UpVolume
UpVolume(raw) ==
  IF GetVolume(raw) >= 90 THEN raw ELSE SetVolume(GetVolume(raw) + 10)
DownVolume(raw) ==
  IF GetVolume(raw) <= 10 THEN raw ELSE SetVolume(GetVolume(raw) - 10)

=============================================================================
