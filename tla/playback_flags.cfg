\* Start, stop, suspend and continue at any moment, with failures.
CONSTANTS
  Pids = {p1, p2, p3, p4}
  Parent = parent
  Group = group
  Init1 = init
  Singers = {s1}
  NoSinger = none
  NumSongs = 3
  Commands = {"start", "stop", "suspend", "continue"}
  Patient = FALSE
  Faulty = TRUE
  MaxCmds = 4
SPECIFICATION SafetySpec
SYMMETRY PidSymmetry
CHECK_DEADLOCK FALSE
INVARIANTS StoppedIsSilent NoChildLeft OnePlayer StatusNamesTheSong MutualExclusion LockIsHeldInside
PROPERTY SongsInOrder
