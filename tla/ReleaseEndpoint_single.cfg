SPECIFICATION Spec
CONSTANTS
  None = None
  a1 = a1
  a2 = a2
  a3 = a3
  x2 = x2
  Procs = {p1}
  Versions = {1, 2, 3}
  Artifacts = {a1, a2, a3, x2}
  Endpoint = "local"
  First = 1
  Signed <- MCSigned
  Embeds <- MCEmbeds
  Index <- MCIndex
  Commands = {"stage", "apply", "rollback", "upgrade"}
  Faults = {"stage", "hook"}
INVARIANTS
  PriorRetained
  FailureRolledBack
  UpgradeInstalls

  
