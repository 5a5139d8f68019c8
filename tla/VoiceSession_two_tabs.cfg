\* Two requests at a time, one runtime that is shut down meanwhile.
SPECIFICATION Spec
CONSTANTS
  v1 = v1
  v2 = v2
  c1 = c1
  c2 = c2
  None = None
  Sessions = {v1}
  Clients = {c1, c2}
  Reports <- FewReports
  ServerSTT = FALSE
  Timeout = 1
  MaxTime = 0
  MaxStarts = 0
  MaxSpeech = 0
  MaxCrashes = 0
  MaxClears = 0
SYMMETRY Symmetry
INVARIANTS
  TypeOK
  Coherent
PROPERTIES
  LaterRequestsLeaveShutdown
CHECK_DEADLOCK FALSE
