SPECIFICATION FairSpec
CONSTANTS
  k1 = k1
  k2 = k2
  None = None
  Captures = {k1}
  Profiles <- InBrowser
  MaxSessions = 1
  Budgets <- AClick
PROPERTIES
  ListensAgain
CHECK_DEADLOCK FALSE
