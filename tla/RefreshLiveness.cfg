SPECIFICATION MCFairSpec
CONSTANTS
  Files = {f, g}
  BlobFiles = {f}
  Versions = {1, 2}
  RebuildOver = 1
  EditsOverlap = TRUE
  MaxEdits = 2
  MaxFaults = 1
  MaxEmbedFails = 1
  MaxCrashes = 1
  MaxTargeted = 1
  MaxBuilds = 1
  MaxAsked = 1
INVARIANT LegacyConverges
PROPERTIES LegacyEvidence EventuallyFresh EventuallyCovered
