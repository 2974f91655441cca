SPECIFICATION Spec
CONSTANTS
 Session = {s1}
 Runtime = {r1, r2}
 Operation = {o1, o2}
 Instance = {i1, i2}
 s1 = s1
 r1 = r1
 r2 = r2
 o1 = o1
 o2 = o2
 i1 = i1
 i2 = i2
 Empty = Empty
 None = None
SYMMETRY Symmetry
INVARIANTS
  SessionInv
  OneProcessPerSession
  ClosedHoldsNothing
CHECK_DEADLOCK FALSE
