\* A stop that is given while music plays and read after the list has ended.
CONSTANTS
  Pids = {p1, p2, p3, p4}
  Parent = parent
  Group = group
  Init1 = init
  Singers = {s1}
  NoSinger = none
  NumSongs = 1
  Commands = {"start", "stop"}
  Patient = TRUE
  Faulty = FALSE
  MaxCmds = 2
SPECIFICATION SafetySpec
CHECK_DEADLOCK FALSE
PROPERTY StopFindsChild
