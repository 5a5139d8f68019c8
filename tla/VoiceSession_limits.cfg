\* What the code does not keep: check the properties one at a time, each is violated.
SPECIFICATION Spec
CONSTANTS
  v1 = v1
  v2 = v2
  c1 = c1
  c2 = c2
  None = None
  Sessions = {v1, v2}
  Clients = {c1, c2}
  Reports <- BrowserReports
  ServerSTT = TRUE
  Timeout = 1
  MaxTime = 0
  MaxStarts = 1
  MaxSpeech = 0
  MaxCrashes = 0
  MaxClears = 1
INVARIANTS
  ShutdownPersists
  OneRuntime
  ActiveIsBounded
PROPERTIES
  ShutdownIsFinal
CHECK_DEADLOCK FALSE
