SPECIFICATION FairSpec
CONSTANTS
  None = None
  a = a
  b = b
  a2 = a2
  a3 = a3
  c1 = c1
  c2 = c2
  c3 = c3
  r1 = r1
  Procs = {p1, p2}
  Names = {a, b}
  Active = {a, b}
  Creds = {c1, c2, c3, r1}
  Variants <- MCPlain
  Initial <- MCTwo
  Broken = {c1}
  Importable = {}
  Refreshed = {}
  Selectors = {a}
  MaxEntries = 4
  Faults = {"manifest"}
INVARIANTS
  TypeOK
  ListedOnce
  OneCopy
PROPERTIES
  NothingLost
  
