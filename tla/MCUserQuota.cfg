\* Two handlers at once, nodes that refuse, a crash, a midnight.
CONSTANTS
  Procs = {p1, p2}
  Forwards = {f1, f2}
  Services = {tcp, udp}
  DailyLimit = 2
  MonthlyLimit = 3
  MaxUse = 3
  MaxResets = 2
  MaxResumes = 1
  MaxDays = 1
  MaxCrashes = 1
SPECIFICATION Spec
INVARIANTS
  TypeOK
  NoneForgotten
  ReleaseRestores
  StatusIsReal
  DisabledIsStopped
PROPERTY MarkedWhenExceeded
SYMMETRY Symmetry
CHECK_DEADLOCK FALSE
