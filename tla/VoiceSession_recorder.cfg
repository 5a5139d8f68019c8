\* One request at a time, typed, heard by the browser or recorded, with fair handlers.
SPECIFICATION FairSpec
CONSTANTS
  v1 = v1
  v2 = v2
  c1 = c1
  c2 = c2
  None = None
  Sessions = {v1}
  Clients = {c1}
  Reports <- BrowserReports
  ServerSTT = TRUE
  Timeout = 1
  MaxTime = 2
  MaxStarts = 1
  MaxSpeech = 2
  MaxCrashes = 1
  MaxClears = 1
PROPERTIES
  NewerAudioHolds
  TurnSettles
CHECK_DEADLOCK FALSE
