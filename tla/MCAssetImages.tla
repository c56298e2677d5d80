--------------------------- MODULE MCAssetImages ---------------------------
(* The requests for images, whose lookups may hit or miss, and the cache   *)
(* that answers them, in behaviours of their own.                          *)
EXTENDS AssetImageRequests, AssetCache

CONSTANTS small, large, first
MCFileSize == [p \in Payloads |-> IF p = small THEN 1 ELSE 2]

RequestsAreAtRest == base = first /\ bound = [r \in Requests |-> NoBound]
CacheIsAtRest ==
  /\ enabled /\ memory = << >> /\ digests = << >>
  /\ files = << >> /\ index = << >> /\ written = {}

InitImages == Init /\ InitCache
NextImages ==
  \/ CacheIsAtRest /\ Next /\ UNCHANGED cacheVars
  \/ RequestsAreAtRest /\ NextCache /\ UNCHANGED vars
SpecImages == InitImages /\ [][NextImages]_<<vars, cacheVars>> /\ Fairness
=============================================================================
