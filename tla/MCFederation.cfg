\* Two tunnels and two requests at a time; three requests, or two and a fault or
\* a meeting of theirs.
CONSTANTS
  Tunnels = {1, 2}
  Hops <- MCHops
  Exits = {"e1", "e2"}
  Paths <- MCPaths
  Tasks = {1, 2}
  None = None
  OneConn = FALSE
  MaxPort = 2
  Share <- MCShare
  MaxRequests = 3
  MaxFaults = 1
  MaxTrials = 3
SPECIFICATION FairSpec
INVARIANTS
  TypeOK
  PathIsWhole
  GoneIsReleased
  PortsDistinct
PROPERTIES
  Returns
ACTION_CONSTRAINTS Modest Few
CHECK_DEADLOCK FALSE
