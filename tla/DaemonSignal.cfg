SPECIFICATION FairDownSpec
CONSTANTS
  Repos = {repo1}
  Refreshers = {x1}
PROPERTY SignalStops
CHECK_DEADLOCK FALSE
