\* A call of the API and the run of an operation use one session, which is ended once.
SPECIFICATION Spec
CONSTANTS
  c1 = c1
  c2 = c2
  None = None
  NoElement = NoElement
  Calls = {c1, c2}
  Operations = {c2}
  Pages <- MCPages
  Blank <- MCBlank
  Asks <- EveryAsk
  SensitiveWords = {"buy"}
  VisualWords = {"this"}
  MaxCalls = 2
  MaxSamples = 1
  MaxBackends = 2
  MaxCloses = 1
  MaxDrift = 1
INVARIANTS
  MediaIsRestored
PROPERTIES
  OnlyTheReadingDiffers
CHECK_DEADLOCK FALSE
