\* A tapper, a draft and two requests on a queue that one message fills.
SPECIFICATION Spec
CONSTANTS
  None = None
  Tappers = {w}
  Drafts = {d}
  Threads = {t1, t2}
  Beats <- MCBeats
  Controls <- MCControls
  DeviceFails = TRUE
  Room = 3
  Wakeup = 2
INVARIANTS
  TypeOK
  IntactIsHeard
  NothingInvented
PROPERTIES
  CcAnswered
