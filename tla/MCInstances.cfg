SPECIFICATION FairSpec
CONSTANTS
  Service = {s0, s1, s2}
  Cli = {k0, k1}
  Past = {s0, k0}
  Client = {c1}
  MaxAlive = 2
  MaxFaults = 1
  None = None
INVARIANTS
  InstanceInv
  ServingIsFound
PROPERTIES
  ClientsAreServed
  DeadAreRepaired
CHECK_DEADLOCK FALSE
