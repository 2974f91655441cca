SPECIFICATION Spec
CONSTANTS
  Task = {t1, t2}
  Session = {s1}
  Runtime = {r1, r2}
  Key = {k1, k2}
  Call = {c1, c2}
  None = None
  Asking = {}
  MaxTasks = 2
  MaxCrashes = 1
SYMMETRY Symmetry
INVARIANTS
  IInv
  NeverResent
  LeaseCoversProcess
PROPERTIES
  PromiseKept
CHECK_DEADLOCK FALSE
