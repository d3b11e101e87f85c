SPECIFICATION LiveSpec
CONSTANTS
  n1 = n1
  good = good
  dead = dead
  bad = bad
  p1 = p1
  p2 = p2
  Absent = Absent
  Nil = Nil
  Operator = Operator
  Name <- MCName
  Content <- MCContent
  StaticBad <- MCStaticBad
  Dead <- MCDead
  InitialPools <- MCPools
  Health <- MCHealth
  ModesOf <- MCModes
  MaxTrigger = 2
  MaxWrites = 1
  MaxCopies = 1
  MaxCrashes = 1
CONSTRAINT Deaths
PROPERTIES
  
  TriggerHandled
