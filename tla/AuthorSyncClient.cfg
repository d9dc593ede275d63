SPECIFICATION Spec
CONSTANTS
  Dt = 2
  ActionHorizon = 8
  StepsPerInference = 2
  Playback = 1
  RobotLatency = 1
  GripperLatency = 2
  DispatchLead = 2
  ExpirySlack = 1
  MaxLocalDelay = 2
  RequestTimeout = 10
  ArmSpeed = 8
  GripperSpeed = 6
  MaxTrackingError = 60
  MaxStep = 36
  Slopes = {0, 12}
  MaxWaypoints = 0
  ArmPeriod = 1
  PromptAnswer = 8
  Transport = 1
  MaxNow = 16
  MaxRounds = 2
INVARIANTS
  AuthorSyncTypeOK
  PlanFollowed
  PolicyFollowsPhysical
  NoBoundaryError
  NoStarvation
PROPERTIES
  PrefixKept
CHECK_DEADLOCK FALSE
