SPECIFICATION FairSpec
CONSTANTS
  Pats = {p1, p2}
  Mids = {m1}
  Deliveries = {d1}
  Aborters = {a1}
  MaxSessions = 2
  Replies = {"list", "unavailable", "garbled"}
  ThreadedRetry = TRUE
  MayRestart = TRUE
  None = None
INVARIANTS TypeOK TaskMatchesRow SentAccounted OutBoxAccounted
PROPERTIES VerdictStays EndsTerminal EngineComesFree
CHECK_DEADLOCK FALSE
