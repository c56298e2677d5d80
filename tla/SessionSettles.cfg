\* Two profiles of one server: both can be stalled at once.
SPECIFICATION FairSpec
CONSTANTS
  p1 = p1
  p2 = p2
  e1 = e1
  e2 = e2
  t1 = t1
  t2 = t2
  Profiles = {p1, p2}
  Endpoints = {e1}
  Tokens = {t1}
  NoProfile = NoProfile
  NoEndpoint = NoEndpoint
  NoToken = NoToken
  Origin <- MCOneToken
  Hosted = p1
  HostedEndpoint = e1
  MaxQueue = 1
PROPERTIES
  ComesToRest
  EveryStallClears
