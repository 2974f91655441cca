SPECIFICATION FairActivity
CONSTANTS
  Record = {r1, r2}
  Job = {j1, j2}
  Task = {r1}
  Conn = {c1, c2}
  NoCommit = NoCommit
  IdleTimeout = TRUE
INVARIANTS
  ActivityInv
  IdleDrainLosesNothing
PROPERTIES
  IdleServiceStops
CHECK_DEADLOCK FALSE
