\* Two requests of any kind, bodies of up to one unit more than the cap.
SPECIFICATION Spec
CONSTANTS
  Requests = {r1, r2}
  Cap = 1
  MaxBody = 2
  Statuses = {"ok", "unauthorized", "other"}
INVARIANTS
  SuccessIsWhole
PROPERTIES
  AnswersOnce
CHECK_DEADLOCK FALSE
