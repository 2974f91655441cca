SPECIFICATION LiveSpec
CONSTANTS
 Operation = {o1, o2}
 Key = {k1, k2}
 o1 = o1
 o2 = o2
 k1 = k1
 k2 = k2
 None = None
 MaxCrashes = 1
INVARIANTS
  OperationInv
  OneActionPerKey
PROPERTIES
  CancelWins
  CancelledEnds
CHECK_DEADLOCK FALSE
