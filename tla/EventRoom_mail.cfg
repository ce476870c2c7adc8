SPECIFICATION FairSpec
CONSTANTS
  Requests = {r1}
  Scanners = {"loop", "thread"}
  Callsigns = {}
  PostIds = {}
  PostNames = {}
  Raws = {m1, m2}
  Details = {d1}
  FieldStatuses = {}
  DeliveryOutcomes = {"failed"}
  Pins = {FALSE}
  AprsConfigured = FALSE
  MayRestart = FALSE
  MaxLog = 2
  MaxSent = 1
  Triage = {"dismissed"}
  None = None
INVARIANTS RoutedOnce
PROPERTIES InboundRouted
CHECK_DEADLOCK FALSE
