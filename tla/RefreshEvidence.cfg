SPECIFICATION Spec
CONSTANTS
  Files = {f, g}
  Versions = {1, 2}
  EditsOverlap = FALSE
  MaxEdits = 1
  MaxFaults = 1
  MaxEmbedFails = 0
  MaxCrashes = 0
  MaxTargeted = 0
  MaxBuilds = 0
  RebuildOver = 2
PROPERTY EvidenceOnly
