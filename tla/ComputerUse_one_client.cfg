\* One user at a time against one operation, with replanning.
SPECIFICATION Spec
CONSTANTS
  o1 = o1
  o2 = o2
  w1 = w1
  w2 = w2
  p1 = p1
  p2 = p2
  s1 = s1
  s2 = s2
  look = look
  wait = wait
  buy = buy
  post = post
  None = None
  Ops = {o1}
  Sessions = {s1}
  SessionOf <- MCSessionOf
  Orphans = {}
  Delegated = {o1}
  Workers = {w1, w2}
  Procs = {p1}
  ProcOf <- OneProcess
  Clients = {c1}
  Steps = {look, wait, buy, post}
  Sensitive = {buy, post}
  Interruptible = {wait}
  Plans <- MCPlans
  MaxReplans = 1
  MaxSteps = 2
  QueueSurvives = FALSE
  MaxRequests = 3
  MaxCrashes = 0
INVARIANTS
  TypeOK
  ShownStepIsPerformed
  CompletedCoversPlan
  CancelStopsWithinAStep
  PlansNeverApproveThemselves
PROPERTIES
  ImplementsLifecycle
CHECK_DEADLOCK FALSE
