SPECIFICATION WaitSpec
CONSTANTS
  Waiter = {w1}
  Turn = {t1, t2}
  PageSize = 1
  MaxWrites = 5
  Nothing = nothing
INVARIANTS
  WaitInv
PROPERTIES
  AnswerIsOneState
  WaitEnds
CHECK_DEADLOCK FALSE
