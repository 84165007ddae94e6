\* Three processes, one more than the restarts in a row that are allowed.
CONSTANTS
  Procs = {p1, p2, p3}
  MaxAttempts = 2
  NoProc = NoProc
SPECIFICATION FairSpec
CHECK_DEADLOCK FALSE
INVARIANTS
  NoProcessOutlivesTeardown
PROPERTIES
  DegradationEscalates
  CrashIsSettled
