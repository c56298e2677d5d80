\* Three requests for two URLs of one key, decoded at one bound; and a cache of
\* two URLs, sizes and payloads, any of which fills the disk by half or whole.
SPECIFICATION SpecImages
CONSTANTS
  Requests = {r1, r2, r3}
  Keys = {k1}
  first = b1
  Bases = {b1, b2}
  Bounds = {full}
  Endings = {"none", "notFound", "failed"}
  Ttl = 2
  NegativeMax = 1
  Assets = {u1, u2}
  CellSizes = {c1, c2}
  small = small
  large = large
  Payloads = {small, large}
  FileSize <- MCFileSize
  DiskMax = 2
  MaxDigests = 1
  Damaged = Damaged
INVARIANTS
  Sharing
  OneVersion
  DiskKeepsItsLimit
PROPERTIES
  AnswersOnce
CHECK_DEADLOCK FALSE
