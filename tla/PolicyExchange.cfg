CONSTANTS
  None = None
  NoItem = NoItem
  Rounds = {r1, r2}
  MaxSeq = 2
  Callers = {"loop", "thread"}
  LogQueueSize = 2

SPECIFICATION FairSpec

INVARIANTS
  ExchangeTypeOK
  BusyMeansOneInFlight
  EvidenceInOrder
  NothingLost

PROPERTY EveryRequestAnswered
