\* One client and two tappers.
SPECIFICATION SafeSpec
CONSTANTS
  None = None
  Threads = {t1}
  Procs = {p1, p2}
  SpawnFails = FALSE
  MaxRestarts = 0
CHECK_DEADLOCK FALSE
INVARIANT
  RunningIsPointedTo
