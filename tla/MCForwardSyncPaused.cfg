\* Two requests at a time, nothing fails.
CONSTANTS
  tcp = tcp
  udp = udp
  Services = {tcp, udp}
  Variants <- MCVariants
  Protos <- MCProtos
  Lists <- MCLists
  Handlers = {h1, h2}
  MaxCommands = 0
  MaxFaults = 0
  MaxKills = 0
  MaxJobs = 3
  MaxLost = 0
  MaxTrials = 4
  MaxGoals = 3
SPECIFICATION SyncSpec
INVARIANT PausedIsKept
CHECK_DEADLOCK FALSE
