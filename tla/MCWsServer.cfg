\* Two commands to one node or two, over two connections.
CONSTANTS
  Nodes = {1, 2}
  Conns = {1, 2}
  Cmds = {1, 2}
  None = None
SPECIFICATION OrderedSpec
INVARIANTS
  TypeOK
  ChannelClosedOnce
  SessionIsTheOpenConn
PROPERTIES
  CallSpec
  CallReturns
CHECK_DEADLOCK FALSE
