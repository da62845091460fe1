\* Two overlapping clients, three tappers.
SPECIFICATION SafeSpec
CONSTANTS
  None = None
  Threads = {t1, t2}
  Procs = {p1, p2, p3}
  SpawnFails = TRUE
  MaxRestarts = 0
SYMMETRY Symmetry
CHECK_DEADLOCK FALSE
INVARIANTS
  TypeOK
  StopErrorNeedsRival
  IntComesFirst
  PoliteNoOrphan
  PoliteStopStops
