\* Next on the last song of a list.
CONSTANTS
  Pids = {p1, p2, p3, p4}
  Parent = parent
  Group = group
  Init1 = init
  Singers = {s1}
  NoSinger = none
  NumSongs = 1
  Commands = {"start", "next"}
  Patient = TRUE
  Faulty = FALSE
  MaxCmds = 2
SPECIFICATION SafetySpec
CHECK_DEADLOCK FALSE
INVARIANT LockIsHeldInside
