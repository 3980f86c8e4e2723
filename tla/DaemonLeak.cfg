SPECIFICATION Spec
CONSTANTS
  Names = {a, b}
  Handlers = {h1, h2}
  MaxSlots = 2
  MaxFaults = 0
  MaxTimeouts = 0
INVARIANT RemovedNeverLeaks
