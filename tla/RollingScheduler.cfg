CONSTANTS
  None = None
  Heights = {0, 1, 2}
  Horizon = 3
  Dt = 1
  DispatchLead = 1
  CommitSteps = 2
  CommitWindow = 2
  RequestEvery = 2
  ReplanRemaining = 1
  MaxQueue = 2
  BlendSteps = 1
  CompleteChunk = FALSE
  TrackingLimit = 1
  StepLimit = 1
  PrefixTolerance = 0
  SlowDown = 1
  StaticFloor = 0
  DownwardLimit = 1
  MaxAge = 1
  MaxTime = 6

SPECIFICATION Spec

INVARIANTS
  TypeOK
  SentIsPrefix
  PrefixAligned
  QueueSafe
  SpeedLimited

PROPERTIES
  CommittedImmutable
  AnswerInStep
  DispatchInOrder
  KeepsPromise
