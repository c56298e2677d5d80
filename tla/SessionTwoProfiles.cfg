\* Two profiles, two servers, one token each.
SPECIFICATION Spec
CONSTANTS
  p1 = p1
  p2 = p2
  e1 = e1
  e2 = e2
  t1 = t1
  t2 = t2
  Profiles = {p1, p2}
  Endpoints = {e1, e2}
  Tokens = {t1, t2}
  NoProfile = NoProfile
  NoEndpoint = NoEndpoint
  NoToken = NoToken
  Origin <- MCOneTokenPerEndpoint
  Hosted = p1
  HostedEndpoint = e1
  MaxQueue = 1
INVARIANTS
  NoTokenToForeignEndpoint
  StateTellsTheStore
  AccessTokenIsCurrentSession
  SingleFlow
  AbandonedSaveIsCompensated
  EndpointChangeSeparatesReads
PROPERTIES
  DeletionIsNeverDropped
  KeepsThePromise
