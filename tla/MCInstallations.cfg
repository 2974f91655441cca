SPECIFICATION FairSpec
CONSTANTS
  i1 = i1
  i2 = i2
  o1 = o1
  o2 = o2
  o3 = o3
  Instance = {i1, i2}
  Op = {o1, o2, o3}
  Home <- MCHome
  MaxJobs = 2
  MaxFaults = 1
  MaxCleanups = 1
INVARIANTS
  InstallationInv
  ReadyIsWhole
  UsedIsReady
PROPERTIES
  AcquireEnds
CHECK_DEADLOCK FALSE
