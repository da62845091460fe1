\* Counters of 12 values, beats of 4 and up to 3 units from step to step.
SPECIFICATION Spec
CONSTANTS
  Loops = {"st", "old", "ttt", "clock"}
  Wrap = 12
  Delay = 4
  Gap = 3
  Longest = 90
INVARIANTS
  TypeOK
  EarlyOnlyAtTheTop
  LateOnlyAtTheTop
PROPERTIES
  IntEnds
CHECK_DEADLOCK FALSE
