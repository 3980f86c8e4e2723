SPECIFICATION MCSpec
CONSTANTS
  Names = {a, b}
  Handlers = {h1, h2}
  MaxSlots = 2
  MaxFaults = 1
  MaxTimeouts = 1
  Daemons = {p, q}
  Clients = {reader}
  MaxTokens = 3
  Repos = {}
  Refreshers = {}
INVARIANTS ForgottenIsClosed ConfigCurrentUnlessOverlapped TokenAgreed
SYMMETRY Interchangeable
