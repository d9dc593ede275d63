CONSTANTS
  MaxEpisode = 1
  ChunkSize = 1
  QueueSize = 2
  MaxCalls = 1

SPECIFICATION Spec

INVARIANT ConfirmedMeansHeld
