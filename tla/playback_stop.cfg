\* Stop at any moment of a list.
CONSTANTS
  Pids = {p1, p2, p3, p4}
  Parent = parent
  Group = group
  Init1 = init
  Singers = {s1}
  NoSinger = none
  NumSongs = 5
  Commands = {"start", "stop"}
  Patient = TRUE
  Faulty = FALSE
  MaxCmds = 2
SPECIFICATION Spec
CHECK_DEADLOCK FALSE
PROPERTY StopReturns
