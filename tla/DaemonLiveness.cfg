SPECIFICATION MCFairSpec
CONSTANTS
  Names = {a}
  Handlers = {h1, h2, h3}
  MaxSlots = 1
  MaxFaults = 1
  MaxTimeouts = 1
  Daemons = {}
  Clients = {}
  MaxTokens = 0
  Repos = {repo1, repo2}
  Refreshers = {x1}
PROPERTIES RemovalsReturn StreamsOfKeptReposEnd ShutdownOrderly
CHECK_DEADLOCK FALSE
