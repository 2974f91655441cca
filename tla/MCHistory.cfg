SPECIFICATION Spec
CONSTANTS
  Task = {t1}
  Content = {c1}
  Cleaner = {k1}
  Bridges = {b1}
  Filters <- MCFilters
  Limit = 1
  MaxEvents = 2
  MaxSegments = 2
  MaxActs = 2
  MaxPlans = 1
  MaxFaults = 1
  Session = session
  None = none
INVARIANTS
  HistoryInv
  ContentHeld
  ReaderMissesNothing
CHECK_DEADLOCK FALSE
