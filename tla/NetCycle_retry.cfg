SPECIFICATION Spec
CONSTANTS
  Sessions = {s1}
  Backends = {b1}
  Retriers = {r1}
  Templates = {{"roster"}, {"reminder"}}
  MaxId = 1
  MayRestart = FALSE
  None = None
PROPERTY DraftsStayHome
