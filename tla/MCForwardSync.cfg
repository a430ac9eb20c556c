\* Two requests at a time; three requests, lost answers, taken ports and kills,
\* four of these together.
CONSTANTS
  tcp = tcp
  udp = udp
  Services = {tcp, udp}
  Variants <- MCVariants
  Protos <- MCProtos
  Lists <- MCLists
  Handlers = {h1, h2}
  MaxCommands = 0
  MaxFaults = 1
  MaxKills = 1
  MaxJobs = 3
  MaxLost = 1
  MaxGoals = 4
  MaxTrials = 4
SPECIFICATION FairSyncSpec
INVARIANTS
  SyncTypeOK
  ShownIsServed
  PausedIsSilent
  GoneIsGone
PROPERTIES
  OkIsPaused
  OkIsDeleted
  OrphansGo
ACTION_CONSTRAINTS Few
CHECK_DEADLOCK FALSE
