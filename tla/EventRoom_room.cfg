SPECIFICATION Spec
CONSTANTS
  Requests = {r1, r2}
  Scanners = {"thread"}
  Callsigns = {c1}
  PostIds = {p1, p2}
  PostNames = {n1, n2}
  Raws = {m1}
  Details = {"old", "new"}
  FieldStatuses = {"at_post"}
  DeliveryOutcomes = {"queued"}
  Pins = {FALSE, TRUE}
  AprsConfigured = TRUE
  MayRestart = TRUE
  MaxLog = 5
  MaxSent = 0
  Triage = {}
  None = None
SYMMETRY Symmetry
CONSTRAINT RoomBounds
INVARIANTS TypeOK LogGapFree SnapshotsTell RosterMatchesLog PostsResolve
PROPERTY ImplementsEventLog
CHECK_DEADLOCK FALSE
