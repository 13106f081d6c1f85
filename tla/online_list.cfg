\* A speaker that may reconnect, with two apps, and another speaker.
CONSTANTS
  d1 = d1
  d2 = d2
  s1 = s1
  s2 = s2
  s3 = s3
  a1 = a1
  a2 = a2
  a3 = a3
  Devices = {d1, d2}
  DevBevs = {s1, s2, s3}
  AppBevs = {a1, a2}
  Owner <- MCOwner
  NoBev = none
  Timeout = 0
SPECIFICATION Spec
CHECK_DEADLOCK FALSE
INVARIANTS TypeOK UniqueDevices Routed
PROPERTIES GoneSpeakerLeaves GoneAppIsDetached
