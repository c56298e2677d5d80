\* Two responses, which may ask for the same image.
SPECIFICATION Spec
CONSTANTS
  Requests = {r1, r2}
  Keys = {k1}
  Bases = {b1}
  Bounds = {full}
  Endings = {"none", "notFound"}
  Ttl = 0
  NegativeMax = 0
INVARIANTS
  CancelReaches
  NothingDangles
PROPERTIES
  FinishesOnce
  EveryResponseSettles
CHECK_DEADLOCK FALSE
