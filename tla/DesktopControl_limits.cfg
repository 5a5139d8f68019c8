\* What the code does not keep: check the properties one at a time, each is violated.
SPECIFICATION Spec
CONSTANTS
  r1 = r1
  w1 = w1
  w2 = w2
  None = None
  Requests = {r1}
  Windows = {w1, w2}
  Answers <- Titles
  Asked = {"click", "right_click", "type", "fill", "task", "screen", "focus_window", "close_window", "open_path"}
INVARIANTS
  TextIsConstrained
  TargetHasFocus
  SuccessIsVerified
