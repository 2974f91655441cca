SPECIFICATION FairSpec
CONSTANTS
  a1 = a1  a2 = a2
  Agent = {a1, a2}
  Root = root
  Parent <- MCParent
  MaxIntents = 2
  MaxAgents = 2
  MaxQueued = 1
  First = first
  Second = second
  Peer = FALSE
  MaxActs = 1
  MaxFaults = 0
  None = none
PROPERTIES
  CloseEnds
  ReportArrives
CHECK_DEADLOCK FALSE
