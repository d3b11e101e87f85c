SPECIFICATION Spec
CONSTANTS
  None = None
  a = a
  b = b
  a2 = a2
  a3 = a3
  c1 = c1
  c2 = c2
  c3 = c3
  r1 = r1
  Procs = {p1, p2}
  Names = {a, a2}
  Active = {a}
  Creds = {c1, c2}
  Variants <- MCVariants
  Initial <- MCOne
  Broken = {c1}
  Importable = {c2}
  Refreshed = {c2}
  Selectors = {a}
  MaxEntries = 1
  Faults = {"replace", "chmod", "manifest", "fsync", "write", "rollback", "crash"}
PROPERTIES
  ArchiveKept
