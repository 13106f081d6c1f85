\* A speaker that is back before the server has missed it.
CONSTANTS
  d1 = d1
  d2 = d2
  s1 = s1
  s2 = s2
  s3 = s3
  a1 = a1
  a2 = a2
  a3 = a3
  Devices = {d1, d2}
  DevBevs = {s1, s2, s3}
  AppBevs = {a1, a2, a3}
  Owner <- MCOwner
  NoBev = none
  Timeout = 1
SPECIFICATION Spec
CHECK_DEADLOCK FALSE
PROPERTY InfoMakesReachable
