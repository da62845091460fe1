\* Every tempo from 1 to 120 bpm.
SPECIFICATION SafeSpec
CONSTANTS
  NsPerMinute = 60000000
  NsPerSecond = 1000000
  LongHalf = 100000000
  Args <- TempoArgs
  Devices = {"chr"}
  FailingCalls = {}
  InheritedMasks <- NoMasks
  MaxSent = 3
INVARIANT
  PositiveTempoIsTapped
