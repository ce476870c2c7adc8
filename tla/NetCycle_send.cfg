SPECIFICATION Spec
CONSTANTS
  Sessions = {s1}
  Backends = {b1, b2}
  Retriers = {r1, r2}
  Templates = {{"roster"}, {"reminder"}}
  MaxId = 1
  MayRestart = TRUE
  None = None
INVARIANTS CountedOnce ApprovedIsCounted SentWasAccepted AtMostOnce RowsTell
PROPERTY FilesKept
