CONSTANTS
  None = None
  Tasks = {vegetable, fruit}
  Faults = {camera, robot}
  WaypointLimit = 3
  Execute = TRUE
  CommitSteps = 2
  MaxQueue = 3
  ReplanRemaining = 1
  MaxRound = 2
  MaxSeq = 4

SPECIFICATION FairSpec

INVARIANTS
  ClientTypeOK
  PendingIffCurrentInFlight
  HoldReachesRobots
  BoundedRound

PROPERTIES
  BoundedRoundEnds
  ShutdownCompletes
