SPECIFICATION Spec
CONSTANTS
  None = None
  p1 = p1
  p2 = p2
  Publisher <- Mirrors
  SourceId = {1, 2}
  FirstSource = 1
  RING = 8
  FirstManifest = 7
  Kinds = {"tob", "midpoint"}
  MaxChanges = 1
  MaxFaults = 1
INVARIANTS
  NewestManifest
PROPERTIES
  DefinitionsHeal
