SPECIFICATION MCSpec
CONSTANTS
  b = b
  o = o
  u = u
  good = good
  dead = dead
  p1 = p1
  Absent = Absent
  Nil = Nil
  Operator = Operator
  Name <- MCName
  Content <- MCContent
  StaticBad <- MCNone
  Dead <- MCDead
  InitialPools <- MCPools
  Own <- MCOwn
  Kinds = {"accept","promote","active"}
  Earlier = 1
  Health <- MCHealth
  ModesOf <- MCModes
  MaxTrigger = 1
  MaxWrites = 2
  MaxCopies = 1
  MaxCrashes = 1
CONSTRAINT Disturbances
INVARIANTS
  
  UsableArchivedOnlyByRace
  

  
