SPECIFICATION Spec
CONSTANTS
  Pats = {p1, p2}
  Mids = {m1}
  Deliveries = {d1}
  Aborters = {}
  MaxSessions = 1
  Replies = {"list"}
  ThreadedRetry = FALSE
  MayRestart = FALSE
  None = None
INVARIANT SentMeansGone
CHECK_DEADLOCK FALSE
