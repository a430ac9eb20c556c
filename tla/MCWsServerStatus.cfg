\* The status shown for a node whose agent reconnects.
CONSTANTS
  Nodes = {1}
  Conns = {1, 2}
  Cmds = {1}
  None = None
SPECIFICATION Spec
INVARIANT ConnectedShowsOnline
CHECK_DEADLOCK FALSE
