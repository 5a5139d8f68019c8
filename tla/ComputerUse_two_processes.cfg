\* Two worker processes, as deployed, share one browser session.
SPECIFICATION Spec
CONSTANTS
  o1 = o1
  o2 = o2
  w1 = w1
  w2 = w2
  p1 = p1
  p2 = p2
  s1 = s1
  s2 = s2
  look = look
  wait = wait
  buy = buy
  post = post
  None = None
  Ops = {o1, o2}
  Sessions = {s1}
  SessionOf <- MCSessionOf
  Orphans = {}
  Delegated = {}
  Workers = {w1, w2}
  Procs = {p1, p2}
  ProcOf <- ProcessPerWorker
  Clients = {c1}
  Steps = {look, buy}
  Sensitive = {buy}
  Interruptible = {}
  Plans <- OnePlan
  MaxReplans = 1
  MaxSteps = 2
  QueueSurvives = TRUE
  MaxRequests = 0
  MaxCrashes = 0
INVARIANTS
  SessionSerialised
CHECK_DEADLOCK FALSE
