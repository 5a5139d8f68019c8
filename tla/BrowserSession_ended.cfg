\* The session is ended while a call of the API uses it.
SPECIFICATION Spec
CONSTANTS
  c1 = c1
  c2 = c2
  None = None
  NoElement = NoElement
  Calls = {c1, c2}
  Operations = {}
  Pages <- MCPages
  Blank <- MCBlank
  Asks <- Follow
  SensitiveWords = {"buy"}
  VisualWords = {"this"}
  MaxCalls = 1
  MaxSamples = 1
  MaxBackends = 2
  MaxCloses = 1
  MaxDrift = 0
PROPERTIES
  SuccessIsObserved
CHECK_DEADLOCK FALSE
