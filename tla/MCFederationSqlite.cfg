\* A database with one connection: two tunnels are made one after the other or
\* side by side, nothing fails.
CONSTANTS
  Tunnels = {1, 2}
  Hops <- MCHops
  Exits = {"e1", "e2"}
  Paths <- MCPaths
  Tasks = {1, 2}
  None = None
  OneConn = TRUE
  MaxPort = 2
  Share <- MCShare
  MaxRequests = 2
  MaxFaults = 0
  MaxTrials = 2
SPECIFICATION FairSpec
PROPERTIES
  Returns
ACTION_CONSTRAINTS Modest Few
CHECK_DEADLOCK FALSE
