\* The device cannot be opened, or a write fails.
SPECIFICATION SafeSpec
CONSTANTS
  NsPerMinute = 60000000
  NsPerSecond = 1000000
  LongHalf = 100000000
  Args <- CountedArgs
  Devices = {"chr"}
  FailingCalls = {"open", "write"}
  InheritedMasks <- NoMasks
  MaxSent = 3
INVARIANT
  SuccessMeansDelivered
