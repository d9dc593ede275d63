CONSTANTS
  None = None
  LowerLimit = 70
  ReleaseExtra = 8
  RearmDelta = 4
  Requests = {1, 25, 48}
  Objects = {6, 8, 38}
  Soft <- Give
  CloseDeg = 20
  OpenDeg = 20
  OpenLimit = 68
  StartDeg = 4
  Travel = 24

SPECIFICATION FairSpec

INVARIANTS
  LeftAfterRight
  PreparedMeansRearmed

PROPERTIES
  GripHeld
  OpeningReleasesLeft
