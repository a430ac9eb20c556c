\* Two receivers at one time, the second one of the next connection.
CONSTANTS
  Conns = {1, 2, 3}
  Receivers = {1, 2}
  None = None
SPECIFICATION Spec
INVARIANT OneAtATime
CHECK_DEADLOCK FALSE
