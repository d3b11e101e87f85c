SPECIFICATION Spec
CONSTANTS
  None = None
  a = a
  b = b
  a2 = a2
  a3 = a3
  c1 = c1
  c2 = c2
  c3 = c3
  r1 = r1
  Procs = {p1}
  Names = {a, a2, a3}
  Active = {a, a2}
  Creds = {c1, c2, c3, r1}
  Variants <- MCTwinVariants
  Initial <- MCTwins
  Broken = {c1}
  Importable = {c3}
  Refreshed = {}
  Selectors = {}
  MaxEntries = 4
  Faults = {}
PROPERTIES
  ArchiveKept
