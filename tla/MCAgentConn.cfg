\* Three connections and two receivers at one time, reconnects without bound.
CONSTANTS
  Conns = {1, 2, 3}
  Receivers = {1, 2}
  None = None
SPECIFICATION OrderedSpec
INVARIANTS
  TypeOK
  Attended
PROPERTIES
  CommandTaken
  Reconnects
CHECK_DEADLOCK FALSE
