SPECIFICATION Spec
CONSTANTS
  a1 = a1  a2 = a2
  Agent = {a1, a2}
  Root = root
  Parent <- MCParent
  MaxIntents = 2
  MaxAgents = 2
  MaxQueued = 1
  First = first
  Second = second
  Peer = TRUE
  MaxActs = 1
  MaxFaults = 1
  None = none
INVARIANTS
  TeamInv
  OneReport
  MailExact
PROPERTIES
  BadTurnStops
CHECK_DEADLOCK FALSE
