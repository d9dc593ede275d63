SPECIFICATION Spec
CONSTANTS
  waypointA = waypointA
  waypointB = waypointB
  stop = stop
  cmd = cmd
  target = target
  replaceFrom = replaceFrom
  None = None
  Items <- MCItems
  Keys <- MCKeys
  Given <- MCGiven
  Cmd = cmd
  BufferSize = 2
  MaxPuts = 4
INVARIANTS QueueTypeOK DeliveredWhole
PROPERTY QueueIsFifo
CHECK_DEADLOCK FALSE
