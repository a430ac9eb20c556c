\* Two services, ports that are not free, kills.  The process may not start any
\* more, and the bounds end every behaviour.
CONSTANTS
  Services = {s1, s2}
  Lists <- MCLists
  MaxCommands = 6
  MaxFaults = 3
  MaxKills = 2
SPECIFICATION Spec
INVARIANTS
  TypeOK
  RegistryMatchesConfig
  PausedIsStopped
  RestartsAlways
  SavedIsCurrent
SYMMETRY Symmetry
CHECK_DEADLOCK FALSE
