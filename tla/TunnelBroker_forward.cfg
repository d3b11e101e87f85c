CONSTANTS
  s1 = s1
  s2 = s2
  o1 = o1
  o2 = o2
  e1 = e1
  e2 = e2
  c1 = c1
  c2 = c2
  None = None
  Operator = Operator
  Sessions <- OneSession
  Owners <- TwoOwners
  Specs <- TwoSpecs
  Children <- OneChild
  OwnerOf <- OwnerOfOne
  SpecOf <- SpecOfOne
  Dialers <- NoSession
  MaxDelay = 1
  IdleLimit = 1
  OsMayFail = FALSE
SPECIFICATION FairSpec
PROPERTIES
  DeafTunnelRebuilt
CHECK_DEADLOCK FALSE
