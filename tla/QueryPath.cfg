SPECIFICATION FairSpec
CONSTANTS
  Clients = {q1, q2}
  Closers = {c1, c2}
  MaxFiles = 3
  MaxCloses = 3
INVARIANT QuerierPinned
PROPERTIES ConnectionPinned ServedStaleOnlyBySwapInOpen CallsReturn
