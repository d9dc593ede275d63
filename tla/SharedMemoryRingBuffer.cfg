SPECIFICATION Spec
CONSTANTS
  Keys = {pose, time}
  GetMaxK = 2
  Budget = 4
  Spacing = 2
  PutTime = 1
  MaxPuts = 6
  MaxNow = 10
INVARIANTS PacedReadWhole BurstReadWhole
CHECK_DEADLOCK FALSE
