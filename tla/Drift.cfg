\* All three ways to wait.  A second has 4 clock units, a beat 3.
SPECIFICATION Spec
CONSTANTS
  Second = 4
  Interval = 3
  CutToUs = 2
  Methods = {"usleep", "nanosleep", "timer"}
  Checked = TRUE
  MaxDelay = 5
CHECK_DEADLOCK FALSE
INVARIANTS
  TypeOK
  MeasuredModuloASecond
  TornLineIsFollowed
PROPERTIES
  BeatIsReported
  IntEnds
