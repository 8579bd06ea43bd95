CONSTANTS
  j1 = j1
  j2 = j2
  w1 = w1
  w2 = w2
  Jobs = {j1, j2}
  Durable = {}
  Unhandled = {j2}
  Workers = {w1, w2}
  Operators = {}
  MaxAttempts = 2
  BatchSize = 2
  Lease = 1
  Grace = 0
  BackoffSeconds <- MCBackoff
  ClaimLag = 1
  MaxLag = 3
  MaxRetries = 0
  MaxAbandons = 2
  NoClaim = NoClaim
  NoRequest = NoRequest
SPECIFICATION FairSpec
INVARIANTS TypeOK OneOwner QueuedCanRun
PROPERTIES LiveLeaseKept JobsSettle
