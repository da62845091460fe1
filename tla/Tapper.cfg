\* The tapper on an LP64 machine, every failure allowed, and the contract TapProcess.
SPECIFICATION Spec
CONSTANTS
  NsPerMinute = 60000000
  NsPerSecond = 1000000
  LongHalf = 100000000
  Args <- MCArgs
  Devices = {"missing", "file", "chr"}
  FailingCalls = {"open", "sigaction", "sigprocmask", "timer_create", "write", "stdout"}
  InheritedMasks <- MCMasks
  MaxSent = 4
INVARIANTS
  TypeOK
  AtMostOneLateBeat
  BeatsBalance
  BeatWaitsOneSleep
  RepeatsRespected
  TickIsHandled
  NothingBlockedInLoop
  MessageAsAsked
  TempoKept
PROPERTIES
  OnlyTermKills
  IntEnds
  BeatIsSent
  RepeatsEnd
  ProcessSpec
