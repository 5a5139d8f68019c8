\* Any request, one after another, on a desktop of two windows that a person uses
\* too; to the request, every other request is such a person.
SPECIFICATION Spec
CONSTANTS
  r1 = r1
  w1 = w1
  w2 = w2
  None = None
  Requests = {r1}
  Windows = {w1, w2}
  Answers <- Titles
  Asked = {"click", "right_click", "type", "fill", "task", "screen", "focus_window", "close_window", "open_path"}
INVARIANTS
  ApprovalComesFirst
  TextStaysInTarget
  EvidenceIsTrue
