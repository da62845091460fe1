\* The same on a machine whose long has 32 bits.
SPECIFICATION SafeSpec
CONSTANTS
  NsPerMinute = 60000000
  NsPerSecond = 1000000
  LongHalf = 2147483
  Args <- TempoArgs
  Devices = {"chr"}
  FailingCalls = {}
  InheritedMasks <- NoMasks
  MaxSent = 3
INVARIANT
  TempoIsTheDesired
