\* A button that is named by words of its label in another order.
SPECIFICATION Spec
CONSTANTS
  c1 = c1
  c2 = c2
  None = None
  NoElement = NoElement
  Calls = {c1, c2}
  Operations = {}
  Pages <- MCPages
  Blank <- MCBlank
  Asks <- WordsOfALabel
  SensitiveWords = {"buy"}
  VisualWords = {"this"}
  MaxCalls = 1
  MaxSamples = 1
  MaxBackends = 1
  MaxCloses = 0
  MaxDrift = 1
INVARIANTS
  ConsequentialIsConfirmed
CHECK_DEADLOCK FALSE
