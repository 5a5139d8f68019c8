\* What the code does not keep: check the properties one at a time, each is violated.
SPECIFICATION Spec
CONSTANTS
  r1 = r1
  r2 = r2
  r3 = r3
  m1 = m1
  t1 = t1
  d1 = d1
  e1 = e1
  m2 = m2
  None = None
  StepIds = {1, 2, 3}
  Unknown = 0
  Workflows <- OneStep
  Executions = {e1}
  MaxRetries = 1
  MaxCrashes = 1
  t2 = t2
  p1 = p1
  p2 = p2
  a1 = a1
  a2 = a2
  c1 = c1
  c2 = c2
  Commands = {}
  Projects = {p1, p2}
  Agents = {a1}
  MaxFound = 2
  HistoryLimit = 30
  Requests = {r1, r2, r3}
  Tasks = {t1, t2}
  Facts = {"tea", "coffee"}
  Memories = {m1, m2}
  Documents = {d1}
  Texts <- NoText
  Target = 4
  Overlap = 1
PROPERTIES
  KnowledgeIsVersioned
  StoredOnce
CHECK_DEADLOCK FALSE
