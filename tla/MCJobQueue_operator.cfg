CONSTANTS
  j1 = j1
  w1 = w1
  w2 = w2
  Jobs = {j1}
  Durable = {j1}
  Unhandled = {}
  Workers = {w1, w2}
  Operators = {o1, o2}
  o1 = o1
  o2 = o2
  MaxAttempts = 2
  BatchSize = 2
  Lease = 1
  Grace = 0
  BackoffSeconds <- MCBackoff
  ClaimLag = 0
  MaxLag = 3
  MaxRetries = 1
  MaxAbandons = 2
  NoClaim = NoClaim
  NoRequest = NoRequest
SYMMETRY WorkerSymmetry
SPECIFICATION Spec
INVARIANTS CommitOncePerArming
PROPERTIES ImplementsContract
