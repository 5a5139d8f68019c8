SPECIFICATION Spec
CONSTANTS
  Nil = Nil
  VoiceSessions = {s1, s2}
  Turns = {t1, t2}
  Remembered = {"tea"}
  Profiles <- MCProfiles
  Lengths = {8, 9}
  MinSamples = 2
  MaxEnrolled = 3
  MaxSettings = 1
  MaxVoiceCrashes = 1
  Threads = {h1, h2, h3}
  Provided <- MCProvided
  MaxTools = 2
  MaxBroken = 2
  MaxLookups = 4
  Asked <- MCAsked
  ModelSteps <- MCModelSteps
  ModelConfigured = TRUE
  DesktopThere = FALSE
  PlanLimit = 1
  MaxAsked = 1
  Calls = {c1, c2}
  Requests <- MCRequests
  MaxDelivery = 2
  MaxSync = 1
INVARIANTS
  MemoryIsConsented ClearedStaysCleared PlayableAudioExists
  BootstrapIsWhole PlansRunAsMeant ReportsAreTrue
SYMMETRY Same
CHECK_DEADLOCK FALSE
