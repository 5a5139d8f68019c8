SPECIFICATION TurnSpec
CONSTANTS
  k1 = k1
  k2 = k2
  None = None
  Captures = {k1, k2}
  Profiles <- BothProfiles
  MaxSessions = 2
  Budgets <- Disturbed
INVARIANTS
  GreetedOnce
  DeafWhileAnswering
PROPERTIES
  TurnEnds
CHECK_DEADLOCK FALSE
