SPECIFICATION Spec
CONSTANTS
  k1 = k1
  k2 = k2
  None = None
  Captures = {k1}
  Profiles <- InBrowser
  MaxSessions = 1
  Budgets <- TwoClicks
INVARIANTS
  ShutdownReleasesMicrophone
CHECK_DEADLOCK FALSE
