\* Two users of every habit, who register, log in and bind, on any old table.
CONSTANTS
  Apps = {p1, p2}
  Patient = {p1}
  Hasty = {}
  Ids = {i1, i2}
  Old = {i2}
  Passwords = {w1, w2}
  Devices = {d1}
  None = none
  MaxClicks = 3
SPECIFICATION Spec
CHECK_DEADLOCK FALSE
INVARIANTS TypeOK WindowIsLoggedIn PlayerIsBound
PROPERTIES BookKept PatientIsAnswered
