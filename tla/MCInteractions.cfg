SPECIFICATION CallbackSpec
CONSTANTS
  Interaction = {i1}
  Task = {t1}
  k1 = k1
  k2 = k2
  Key = {k1, k2}
  Caller <- MCCaller
  Kinds <- MCKinds
  None = None
  MaxPending = 1
  MaxTerminals = 1
INVARIANTS
  CallbackInv
  DecisionStands
PROPERTIES
  CallbacksEnd
CHECK_DEADLOCK FALSE
