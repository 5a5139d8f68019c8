\* Two requests that cancel or approve while an objective of any kind is served.
SPECIFICATION Spec
CONSTANTS
  c1 = c1
  c2 = c2
  Clients = {c1, c2}
  Prompts <- EveryPrompt
  Recent = {"", "browser", "computer"}
  Outcomes = {"completed", "failed", "waiting", "not_found"}
  Unready = TRUE
  MaxRequests = 2
INVARIANTS
  StatusHasCause
  PostActionsOnce
CHECK_DEADLOCK FALSE
