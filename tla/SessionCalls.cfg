\* Two profiles, one server; two calls and two probes; inputs while none is queued.
SPECIFICATION SpecAll
CONSTANTS
  p1 = p1
  p2 = p2
  e1 = e1
  t1 = t1
  Profiles = {p1, p2}
  Endpoints = {e1}
  Tokens = {t1}
  NoProfile = NoProfile
  NoEndpoint = NoEndpoint
  NoToken = NoToken
  Origin <- MCOneToken
  Hosted = p1
  HostedEndpoint = e1
  MaxQueue = 0
  Calls = {c1, c2}
  NoCall = NoCall
  Probes = {o1, o2}
  NoProbe = NoProbe
  MaxBody = 1
  Statuses = {"ok", "unauthorized", "notFound"}
INVARIANTS
  WaitsForWhatIsOutstanding
  StoreCallsAreAtomic
PROPERTY AnswersOnce
CHECK_DEADLOCK FALSE
