SPECIFICATION Spec
CONSTANTS
  Files = {f, g}
  Versions = {1, 2}
  EditsOverlap = TRUE
  MaxEdits = 2
  MaxFaults = 1
  MaxEmbedFails = 1
  MaxCrashes = 1
  MaxTargeted = 1
  MaxBuilds = 1
  RebuildOver = 1
INVARIANT UndisturbedConverges
PROPERTIES FaultsKeepEntries ReindexedIsCoveredOrMarked MarkersKept
