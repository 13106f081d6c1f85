\* The end of the second list.
CONSTANTS
  Pids = {p1, p2, p3, p4}
  Parent = parent
  Group = group
  Init1 = init
  Singers = {s1}
  NoSinger = none
  NumSongs = 2
  Commands = {"start"}
  Patient = TRUE
  Faulty = FALSE
  MaxCmds = 1
SPECIFICATION Spec
CHECK_DEADLOCK FALSE
PROPERTY ListRepeats
