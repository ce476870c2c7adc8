SPECIFICATION Spec
CONSTANTS
  Pats = {p1}
  Mids = {}
  Deliveries = {}
  Aborters = {a1}
  MaxSessions = 1
  Replies = {"list"}
  ThreadedRetry = FALSE
  MayRestart = FALSE
  None = None
PROPERTY AbortStays
CHECK_DEADLOCK FALSE
