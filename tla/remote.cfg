SPECIFICATION Spec
CONSTANTS
  minv = 0
  maxv = 20
  MaxInputs = 3
  MaxKeys = 2
  MaxWire = 1
INVARIANTS TypeOK FlagIsTrue TimerHasGesture
PROPERTIES VolumeObeys LabelSettles MusicShown
CHECK_DEADLOCK FALSE
