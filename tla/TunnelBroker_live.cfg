CONSTANTS
  s1 = s1
  s2 = s2
  o1 = o1
  o2 = o2
  e1 = e1
  e2 = e2
  c1 = c1
  c2 = c2
  None = None
  Operator = Operator
  Sessions <- TwoSessions
  Owners <- TwoOwners
  Specs <- TwoSpecs
  Children <- OneChild
  OwnerOf <- OwnerOfShared
  SpecOf <- SpecOfShared
  Dialers <- NoSession
  MaxDelay = 2
  IdleLimit = 1
  OsMayFail = FALSE
SPECIFICATION FairSpec
PROPERTIES
  StaleLeaseReclaimed
  TunnelRebuilt
  RequestsAnswered
  IdleBrokerExits
CHECK_DEADLOCK FALSE
