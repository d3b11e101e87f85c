SPECIFICATION MCSpec
CONSTANTS
  b = b
  o = o
  u = u
  good = good
  dead = dead
  p1 = p1
  Absent = Absent
  Nil = Nil
  Operator = Operator
  Name <- MCName
  Content <- MCContent
  StaticBad <- MCNone
  Dead <- MCDead
  InitialPools <- MCPools
  Own <- MCOwn
  Kinds = {"promote"}
  Earlier = 0
  Health <- MCHealth
  ModesOf <- MCModes
  MaxTrigger = 0
  MaxWrites = 0
  MaxCopies = 1
  MaxCrashes = 0
CONSTRAINT Disturbances
PROPERTIES
  RollbackReported
