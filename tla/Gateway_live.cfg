\* Overlapping starts and stops of two tappers, a crash and a restart.
SPECIFICATION Spec
CONSTANTS
  None = None
  Threads = {t1, t2}
  Procs = {p1, p2}
  SpawnFails = FALSE
  MaxRestarts = 1
CHECK_DEADLOCK FALSE
PROPERTIES
  OneAtATime
  StopKills
  ServiceComesBack
