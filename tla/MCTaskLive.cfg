SPECIFICATION FairSpec
CONSTANTS
  Task = {t1}
  Session = {s1}
  Runtime = {r1, r2}
  Key = {k1}
  Call = {c1}
  None = None
  Asking = {t1}
  MaxTasks = 1
  MaxCrashes = 1
PROPERTIES
  TerminalIsFinal
  CancelEnds
  ExitEnds
CHECK_DEADLOCK FALSE
