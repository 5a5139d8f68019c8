\* What the code does not keep: check the properties one at a time, each is violated.
SPECIFICATION Spec
CONSTANTS
  c1 = c1
  c2 = c2
  Clients = {c1, c2}
  Prompts <- EveryPrompt
  Recent = {"", "browser", "computer"}
  Outcomes = {"completed", "failed", "waiting", "not_found"}
  Unready = TRUE
  MaxRequests = 2
INVARIANTS
  NothingFabricated
  TreeAgrees
  ApprovedActionOnce
PROPERTIES
  CancelPropagates
CHECK_DEADLOCK FALSE
