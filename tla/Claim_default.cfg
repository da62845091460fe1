\* -r with the default and other small numbers.
SPECIFICATION SafeSpec
CONSTANTS
  NsPerMinute = 60000000
  NsPerSecond = 1000000
  LongHalf = 100000000
  Args <- RepeatArgs
  Devices = {"chr"}
  FailingCalls = {}
  InheritedMasks <- NoMasks
  MaxSent = 3
INVARIANT
  DefaultRunsForever
