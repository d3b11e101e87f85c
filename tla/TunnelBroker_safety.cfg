CONSTANTS
  s1 = s1
  s2 = s2
  o1 = o1
  o2 = o2
  e1 = e1
  e2 = e2
  c1 = c1
  c2 = c2
  None = None
  Operator = Operator
  Sessions <- TwoSessions
  Owners <- TwoOwners
  Specs <- TwoSpecs
  Children <- TwoChildren
  OwnerOf <- OwnerOfTwo
  SpecOf <- SpecOfTwo
  Dialers <- TwoSessions
  MaxDelay = 3
  IdleLimit = 1
  OsMayFail = TRUE
SPECIFICATION Spec
SYMMETRY ChildSymmetry
INVARIANTS
  TypeOK
  NoStrayChild
  LinkReachesLeasedEndpoint
  HeldLeaseHonoured
  BackoffOnlyWhileDown
PROPERTIES
  ImplementsLeaseService
  LeaseLeavesForAReason
CHECK_DEADLOCK FALSE
