\* Every command, in any order and at any time, with failures.
CONSTANTS
  Pids = {p1, p2, p3}
  Parent = parent
  Group = group
  Init1 = init
  Singers = {s1, s2}
  NoSinger = none
  NumSongs = 2
  Commands = {"start", "stop", "suspend", "continue", "next", "prev", "circle", "sequence", "singer"}
  Patient = FALSE
  Faulty = TRUE
  MaxCmds = 3
SPECIFICATION SafetySpec
SYMMETRY PidSymmetry
CHECK_DEADLOCK FALSE
INVARIANTS TypeOK SuspendedIsStarted
