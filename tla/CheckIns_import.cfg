SPECIFICATION Spec
CONSTANTS
  Horizon = 2
  Sessions = {{1, 2}}
  Callsigns = {c1}
  Workers = {"loop", "thread"}
  MaxRows = 3
  MayRestart = TRUE
  None = None
INVARIANTS NothingLost LatestWins OnePerMessage
PROPERTIES OneLeftPerCallsign
CHECK_DEADLOCK FALSE
