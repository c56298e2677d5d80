\* One fetch, every kind of site, up to two redirects.
SPECIFICATION Spec
CONSTANTS
  Requests = {r1}
  Cap = 1
  MaxBody = 2
  Statuses = {"ok", "redirect", "notFound", "notModified", "other"}
  MaxRedirects = 2
  Sites = {"cdn", "plain", "local", "localTls"}
  Https = {"cdn", "localTls"}
  Loopback = {"local", "localTls"}
INVARIANTS
  NoHopIsExposed
PROPERTIES
  AnswersOnce
  NoHopAfterDeadline
CHECK_DEADLOCK FALSE
