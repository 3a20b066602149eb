SPECIFICATION Spec
CONSTANTS
  Event = {e1}
  Request = {r1, r2}
  Worker = {w1, w2}
  MaxRetries = 1
  Env <- Everything
  MaxOutages = 1
  NoTask = NoTask
SYMMETRY Symmetry
INVARIANTS TypeOK AtMostOnce Ownership
PROPERTY ImplementsPromise
