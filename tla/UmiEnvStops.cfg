CONSTANTS
  MaxEpisode = 2
  ChunkSize = 1
  QueueSize = 2
  MaxCalls = 1

SPECIFICATION FairSpec

PROPERTY StopTakesEffect

INVARIANTS
  TypeOK
  ConfirmedIsSafe
  NoStaleTarget
  NothingBehindStop
