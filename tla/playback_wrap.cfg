\* The end of a list, with songs that end by themselves.
CONSTANTS
  Pids = {p1, p2, p3, p4}
  Parent = parent
  Group = group
  Init1 = init
  Singers = {s1}
  NoSinger = none
  NumSongs = 2
  Commands = {"start", "stop"}
  Patient = TRUE
  Faulty = FALSE
  MaxCmds = 3
SPECIFICATION Spec
CHECK_DEADLOCK FALSE
PROPERTY FirstListRepeats
